---- MODULE Spec2Model ----
(***************************************************************************)
(* Model of the Singlelab instrument gateway.                              *)
(*                                                                         *)
(* Part 1: the Supervisor (core/machine_manager.py, MachineManager) and    *)
(* the lifecycle of its sessions (communication/unified_listener.py,       *)
(* UnifiedListener): registry, active-session map, status table, the       *)
(* request threads running start_machine / stop_machine / load_machines,   *)
(* and one execution unit (thread) per session running _listen.            *)
(*                                                                         *)
(* Every `with self._lock:` block of MachineManager is one atomic action;  *)
(* the code between two blocks is a separate action, so other threads      *)
(* interleave exactly where the lock is not held.                          *)
(***************************************************************************)
EXTENDS Integers, Sequences, FiniteSets, TLC

\* ------------------------------------------------------------------ bounds
MaxSessions == 2          \* UnifiedListener objects created in one behaviour

\* ------------------------------------------------------------ the universe
Devices  == {"tcp1", "ser1"}
Callers  == {"api1", "api2"}   \* request threads calling the Supervisor
Sessions == 1..MaxSessions
NoSession == 0

\* What db.get_machines() can return (the names of its rows): both analyzers,
\* or the table after the serial analyzer's row was deleted.
RowSets == {Devices, Devices \ {"ser1"}}

\* MachineManager._resolve_transport: a COM port / comma settings row is
\* Serial, every other row is TCP.
ResolveTransport(d) == IF d = "ser1" THEN "Serial" ELSE "TCP"

VARIABLES
  machines,          \* keys of self.machines / self.machine_records
  active_listeners,  \* self.active_listeners: device -> session (0 = absent)
  listener_status,   \* self.listener_status: device -> status ("Absent" = no key)
  created,           \* number of UnifiedListener objects constructed so far
  sdev,              \* session -> device it was created for ("none" = not created)
  running,           \* session -> UnifiedListener.running
  tpc,               \* session -> position of its thread (self.thread / _listen)
  transport,         \* session -> "none" | "open" | "closed" (socket / self._serial)
  fault,             \* session -> why _listen entered its except block
  notified,          \* session -> calls of notifier.notify_machine_error
  reports,           \* session -> statuses passed to its status callback, in order
  stopInvoked,       \* session -> stop() has been called on it
  startRet,          \* session -> what the start_machine call that built it returned
  cpc,               \* caller -> position inside the Supervisor operation
  cdev,              \* caller -> `name` argument (stop_machine)
  clistener,         \* caller -> local `listener`
  ctostop,           \* caller -> local `listeners_to_stop` (load_machines)
  craised,           \* caller -> listener.stop() raised (stop_machine)
  ret,               \* the result a Supervisor call returns in this step (NoRet: none)
  \* --- one call of the message parser (communication/parser.py)
  call_msg,          \* the message text handed to a parser call; in WireSpec, every byte sent
  call_map,          \* the device's ParamMap: normalized raw code -> canonical code
  parsed,            \* the function called and what it produced (fn "pending": not yet run;
                     \* results: the NormalizedResults returned; text: the str returned)
  \* --- one connection / port read loop of a session (unified_listener.py)
  source,            \* "tcp" (_handle_connection) | "serial" (_listen_serial) | "none"
  stream,            \* the chunks the transport will still deliver, in order
  chunk,             \* bytes of the current chunk not yet looked at (TCP for-loop)
  hpc,               \* position of the handler
  astm_mode,         \* _handle_connection locals
  in_frame,
  expecting_checksum,
  frame_buf,
  astm_frames,
  message_bytes,
  ser_buffer,        \* _listen_serial local `buffer`
  log                \* what happened, in order: bytes read, writes, messages processed

supVars  == <<machines, active_listeners, listener_status>>
sessVars == <<created, sdev, running, tpc, transport, fault, notified, reports,
              stopInvoked, startRet>>
callVars == <<cpc, cdev, clistener, ctostop, craised>>
lifeVars == <<supVars, sessVars, callVars, ret>>
parseVars == <<call_msg, call_map, parsed>>
wireVars == <<source, stream, chunk, hpc, astm_mode, in_frame, expecting_checksum,
              frame_buf, astm_frames, message_bytes, ser_buffer, log>>
vars     == <<lifeVars, parseVars, wireVars>>

\* The dict a Supervisor call returns: its success flag and message, and the
\* call that returned it.
Result(op, ok, msg) == [op |-> op, success |-> ok, message |-> msg]
NoRet == [op |-> "none", success |-> FALSE, message |-> ""]

\* A thread object exists, has been started and has not returned.
ThreadAlive(s) == tpc[s] \notin {"none", "created", "done"}

\* No parser call and no connection is being followed.
ParseIdle ==
  /\ call_msg = <<>>
  /\ call_map = <<>>
  /\ parsed = [fn |-> "idle", raised |-> FALSE, results |-> <<>>, text |-> <<>>]

WireIdle ==
  /\ source = "none"
  /\ stream = <<>>
  /\ chunk = <<>>
  /\ hpc = "idle"
  /\ astm_mode = FALSE
  /\ in_frame = FALSE
  /\ expecting_checksum = 0
  /\ frame_buf = <<>>
  /\ astm_frames = <<>>
  /\ message_bytes = <<>>
  /\ ser_buffer = <<>>
  /\ log = <<>>

\* MachineManager.__init__ : nothing loaded, nothing active.
LifeInit ==
  /\ machines = {}
  /\ active_listeners = [d \in Devices |-> NoSession]
  /\ listener_status = [d \in Devices |-> "Absent"]
  /\ created = 0
  /\ sdev = [s \in Sessions |-> "none"]
  /\ running = [s \in Sessions |-> FALSE]
  /\ tpc = [s \in Sessions |-> "none"]
  /\ transport = [s \in Sessions |-> "none"]
  /\ fault = [s \in Sessions |-> "none"]
  /\ notified = [s \in Sessions |-> 0]
  /\ reports = [s \in Sessions |-> <<>>]
  /\ stopInvoked = [s \in Sessions |-> FALSE]
  /\ startRet = [s \in Sessions |-> "none"]
  /\ cpc = [c \in Callers |-> "idle"]
  /\ cdev = [c \in Callers |-> "none"]
  /\ clistener = [c \in Callers |-> NoSession]
  /\ ctostop = [c \in Callers |-> {}]
  /\ craised = [c \in Callers |-> FALSE]
  /\ ret = NoRet

Init == LifeInit /\ ParseIdle /\ WireIdle

\* ---------------------------------------------------------------- helpers
Kind(s) == ResolveTransport(sdev[s])

\* Faulty variant: a Stopped report empties the whole active set. C12 must
\* reject it.
ListenerStatusCallback_ClearsAll(name, status) ==
  /\ listener_status' = [listener_status EXCEPT ![name] = status]
  /\ active_listeners' = IF status = "Stopped"
                           THEN [d \in Devices |-> NoSession]
                           ELSE active_listeners

\* Faulty variant: the status is written but the Stopped session stays
\* registered (the pop left to a later step). C7 must reject it.
ListenerStatusCallback_StatusOnly(name, status) ==
  /\ listener_status' = [listener_status EXCEPT ![name] = status]
  /\ active_listeners' = active_listeners

\* MachineManager._listener_status_callback (one `with self._lock:` block):
\* the next values of <<listener_status, active_listeners>>.
ListenerStatusCallback(name, status) ==
  /\ listener_status' = [listener_status EXCEPT ![name] = status]
  /\ active_listeners' = IF status = "Stopped"
                           THEN [active_listeners EXCEPT ![name] = NoSession]
                           ELSE active_listeners

\* UnifiedListener._update_status: the session's callback closure calls the
\* Supervisor with the machine name the session was created for.
UpdateStatus(s, status) ==
  /\ ListenerStatusCallback(sdev[s], status)
  /\ reports' = [reports EXCEPT ![s] = Append(@, status)]

\* UnifiedListener.stop, up to the join: clear the flag, close the serial
\* handle if one is open (self._serial is only ever set by _listen_serial).
StopBody(s) ==
  /\ running' = [running EXCEPT ![s] = FALSE]
  /\ transport' = [transport EXCEPT ![s] =
                     IF Kind(s) = "Serial" /\ @ = "open" THEN "closed" ELSE @]
  /\ stopInvoked' = [stopInvoked EXCEPT ![s] = TRUE]

\* Thread.join raises RuntimeError on a thread object that was never started.
JoinRaises(s) == tpc[s] = "created"

\* start_machine / stop_machine have not returned inside their first locked block
Continues == [op |-> "none", success |-> TRUE, message |-> "continues"]

\* Faulty variant: start_machine without the `name in self.active_listeners`
\* test. C4 must reject it.
StartMachineEarly_NoActiveCheck(d) ==
  IF d \notin machines THEN Result("start", FALSE, "not configured") ELSE Continues

\* start_machine lines 141-147: the result returned from inside the first
\* locked block, or Continues when the call goes on to build a session.
StartMachineEarly(d) ==
  IF d \notin machines THEN Result("start", FALSE, "not configured")
  ELSE IF active_listeners[d] # NoSession THEN Result("start", TRUE, "already running")
  ELSE Continues

\* stop_machine lines 173-176: likewise.
StopMachineEarly(d) ==
  IF active_listeners[d] = NoSession THEN Result("stop", FALSE, "not running")
  ELSE Continues

\* stop_machine lines 178-191: the result after listener.stop().
StopMachineResult(raised) ==
  IF raised THEN Result("stop", FALSE, "Failed to stop") ELSE Result("stop", TRUE, "stopped")

\* ------------------------------------------------- Supervisor: start_machine
\* lines 141-147: the call returns from inside the lock (unknown device, or a
\* session already registered); nothing is written.
StartReturnsEarly(c, d) ==
  /\ cpc[c] = "idle"
  /\ StartMachineEarly(d) # Continues
  /\ ret' = StartMachineEarly(d)
  /\ UNCHANGED <<supVars, sessVars, callVars>>

\* Faulty variant: the session is registered but the status is not set to
\* Starting. C38 must reject it.
StartRegister_NoStatus(c, d) ==
  /\ cpc[c] = "idle"
  /\ StartMachineEarly(d) = Continues
  /\ created < MaxSessions
  /\ LET s == created + 1 IN
       /\ created' = s
       /\ sdev' = [sdev EXCEPT ![s] = d]
       /\ listener_status' = listener_status
       /\ active_listeners' = [active_listeners EXCEPT ![d] = s]
       /\ clistener' = [clistener EXCEPT ![c] = s]
  /\ cpc' = [cpc EXCEPT ![c] = "start_listener"]
  /\ UNCHANGED <<machines, running, tpc, transport, fault, notified, reports,
                 stopInvoked, startRet, cdev, ctostop, craised>>
  /\ ret' = NoRet

\* lines 149-159: build the session, mark Starting, register it (under the lock).
StartRegister(c, d) ==
  /\ cpc[c] = "idle"
  /\ StartMachineEarly(d) = Continues
  /\ created < MaxSessions
  /\ LET s == created + 1 IN
       /\ created' = s
       /\ sdev' = [sdev EXCEPT ![s] = d]
       /\ listener_status' = [listener_status EXCEPT ![d] = "Starting"]
       /\ active_listeners' = [active_listeners EXCEPT ![d] = s]
       /\ clistener' = [clistener EXCEPT ![c] = s]
  /\ cpc' = [cpc EXCEPT ![c] = "start_listener"]
  /\ UNCHANGED <<machines, running, tpc, transport, fault, notified, reports,
                 stopInvoked, startRet, cdev, ctostop, craised>>
  /\ ret' = NoRet

\* start_machine lines 161-162 and 169 with UnifiedListener.start 42-46,
\* outside the lock: set the flag, start the thread, return success.
StartLaunch(c) ==
  /\ cpc[c] = "start_listener"
  /\ LET s == clistener[c] IN
       /\ IF ThreadAlive(s)
            THEN UNCHANGED <<running, tpc>>
            ELSE /\ running' = [running EXCEPT ![s] = TRUE]
                 /\ tpc' = [tpc EXCEPT ![s] = "begin"]
       /\ startRet' = [startRet EXCEPT ![s] = "success"]
  /\ ret' = Result("start", TRUE, "starting")
  /\ cpc' = [cpc EXCEPT ![c] = "idle"]
  /\ clistener' = [clistener EXCEPT ![c] = NoSession]
  /\ UNCHANGED <<supVars, created, sdev, transport, fault, notified, reports,
                 stopInvoked, cdev, ctostop, craised>>

\* start_machine lines 163-167: listener.start() raised (the flag is set and the
\* Thread object built, but the thread could not be started): unregister, mark
\* Stopped, return failure.
StartRaised(c) ==
  /\ cpc[c] = "start_listener"
  /\ LET s == clistener[c] IN
       /\ running' = [running EXCEPT ![s] = TRUE]
       /\ tpc' = [tpc EXCEPT ![s] = "created"]
       /\ active_listeners' = [active_listeners EXCEPT ![sdev[s]] = NoSession]
       /\ listener_status' = [listener_status EXCEPT ![sdev[s]] = "Stopped"]
       /\ startRet' = [startRet EXCEPT ![s] = "failure"]
  /\ ret' = Result("start", FALSE, "Failed to start")
  /\ cpc' = [cpc EXCEPT ![c] = "idle"]
  /\ clistener' = [clistener EXCEPT ![c] = NoSession]
  /\ UNCHANGED <<machines, created, sdev, transport, fault, notified, reports,
                 stopInvoked, cdev, ctostop, craised>>

\* Faulty variant: the not-running return also writes Stopped into the status
\* table. C5 must reject it.
StopReturnsEarly_MarksStopped(c, d) ==
  /\ cpc[c] = "idle"
  /\ StopMachineEarly(d) # Continues
  /\ ret' = StopMachineEarly(d)
  /\ listener_status' = [listener_status EXCEPT ![d] = "Stopped"]
  /\ UNCHANGED <<machines, active_listeners, sessVars, callVars>>

\* -------------------------------------------------- Supervisor: stop_machine
\* lines 173-176: nothing registered for the device; return failure.
StopReturnsEarly(c, d) ==
  /\ cpc[c] = "idle"
  /\ StopMachineEarly(d) # Continues
  /\ ret' = StopMachineEarly(d)
  /\ UNCHANGED <<supVars, sessVars, callVars>>

\* lines 173-174: pick up the registered session (under the lock).
StopLookup(c, d) ==
  /\ cpc[c] = "idle"
  /\ StopMachineEarly(d) = Continues
  /\ clistener' = [clistener EXCEPT ![c] = active_listeners[d]]
  /\ cdev' = [cdev EXCEPT ![c] = d]
  /\ cpc' = [cpc EXCEPT ![c] = "stop_listener"]
  /\ UNCHANGED <<supVars, sessVars, ctostop, craised>>
  /\ ret' = NoRet

\* lines 179-185: listener.stop(), outside the lock; the join returns when the
\* thread has ended or after its 2 s timeout, or raises.
StopListener(c) ==
  /\ cpc[c] = "stop_listener"
  /\ StopBody(clistener[c])
  /\ craised' = [craised EXCEPT ![c] = JoinRaises(clistener[c])]
  /\ cpc' = [cpc EXCEPT ![c] = "stop_finally"]
  /\ UNCHANGED <<supVars, created, sdev, tpc, fault, notified, reports,
                 startRet, cdev, clistener, ctostop>>
  /\ ret' = NoRet

\* Faulty variant: the cleanup runs only when listener.stop() returned (no
\* `finally`). C6 must reject it.
StopFinally_CleanupOnSuccess(c) ==
  /\ cpc[c] = "stop_finally"
  /\ IF craised[c]
       THEN UNCHANGED <<active_listeners, listener_status>>
       ELSE /\ active_listeners' = [active_listeners EXCEPT ![cdev[c]] = NoSession]
            /\ listener_status' = [listener_status EXCEPT ![cdev[c]] = "Stopped"]
  /\ ret' = StopMachineResult(craised[c])
  /\ craised' = [craised EXCEPT ![c] = FALSE]
  /\ cpc' = [cpc EXCEPT ![c] = "idle"]
  /\ cdev' = [cdev EXCEPT ![c] = "none"]
  /\ clistener' = [clistener EXCEPT ![c] = NoSession]
  /\ UNCHANGED <<machines, created, sdev, running, tpc, transport, fault, notified,
                 reports, stopInvoked, startRet, ctostop>>

\* lines 186-191: the finally block (under the lock) and the return.
StopFinally(c) ==
  /\ cpc[c] = "stop_finally"
  /\ active_listeners' = [active_listeners EXCEPT ![cdev[c]] = NoSession]
  /\ listener_status' = [listener_status EXCEPT ![cdev[c]] = "Stopped"]
  /\ ret' = StopMachineResult(craised[c])
  /\ craised' = [craised EXCEPT ![c] = FALSE]
  /\ cpc' = [cpc EXCEPT ![c] = "idle"]
  /\ cdev' = [cdev EXCEPT ![c] = "none"]
  /\ clistener' = [clistener EXCEPT ![c] = NoSession]
  /\ UNCHANGED <<machines, created, sdev, running, tpc, transport, fault, notified,
                 reports, stopInvoked, startRet, ctostop>>

\* Faulty variant: the reload drops the removed devices' status entries but
\* leaves their sessions registered and running. C8 must reject it.
LoadMachines_KeepsSessions(c, seen_names) ==
  /\ cpc[c] = "idle"
  /\ listener_status' = [d \in Devices |->
                            IF d \in machines \ seen_names THEN "Absent"
                            ELSE IF d \in seen_names /\ listener_status[d] = "Absent"
                                   THEN "Stopped"
                            ELSE listener_status[d]]
  /\ machines' = seen_names
  /\ UNCHANGED <<active_listeners, sessVars, callVars>>
  /\ ret' = NoRet

\* ------------------------------------------------- Supervisor: load_machines
\* lines 22-62: the rows fetched (seen_names) and the locked reconciliation.
LoadMachines(c, seen_names) ==
  /\ cpc[c] = "idle"
  /\ LET removed == machines \ seen_names
         popped  == {active_listeners[d] : d \in removed} \ {NoSession}
     IN /\ active_listeners' = [d \in Devices |->
                                  IF d \in removed THEN NoSession ELSE active_listeners[d]]
        /\ listener_status' = [d \in Devices |->
                                  IF d \in removed THEN "Absent"
                                  ELSE IF d \in seen_names /\ listener_status[d] = "Absent"
                                         THEN "Stopped"
                                  ELSE listener_status[d]]
        /\ machines' = seen_names
        /\ ctostop' = [ctostop EXCEPT ![c] = popped]
        /\ cpc' = [cpc EXCEPT ![c] = IF popped = {} THEN "idle" ELSE "load_stop"]
  /\ UNCHANGED <<sessVars, cdev, clistener, craised>>
  /\ ret' = NoRet

\* lines 64-68: stop each discarded session, swallowing errors.
LoadStopListener(c) ==
  /\ cpc[c] = "load_stop"
  /\ \E s \in ctostop[c] :
       /\ StopBody(s)
       /\ ctostop' = [ctostop EXCEPT ![c] = @ \ {s}]
       /\ cpc' = [cpc EXCEPT ![c] = IF ctostop[c] = {s} THEN "idle" ELSE "load_stop"]
  /\ UNCHANGED <<supVars, created, sdev, tpc, fault, notified, reports,
                 startRet, cdev, clistener, craised>>
  /\ ret' = NoRet

\* Faulty variant: the except block logs but does not notify. C9 must reject it.
ExceptBlock_Silent(s, why) ==
  /\ fault' = [fault EXCEPT ![s] = why]
  /\ notified' = notified
  /\ tpc' = [tpc EXCEPT ![s] = "finally"]

\* ------------------------------------------- session thread: _listen (58-70)
\* lines 65-68, the except block of _listen: log the error and notify the
\* alerting collaborator once; the finally block follows.
ExceptBlock(s, why) ==
  /\ fault' = [fault EXCEPT ![s] = why]
  /\ notified' = [notified EXCEPT ![s] = @ + 1]
  /\ tpc' = [tpc EXCEPT ![s] = "finally"]

\* line 59: the first statement of the thread reports Running.
ListenReportRunning(s) ==
  /\ tpc[s] = "begin"
  /\ UpdateStatus(s, "Running")
  /\ tpc' = [tpc EXCEPT ![s] = "acquire"]
  /\ UNCHANGED <<machines, created, sdev, running, transport, fault, notified,
                 stopInvoked, startRet, callVars>>
  /\ ret' = NoRet

\* _listen_tcp 73-77 / _listen_serial 86-105: the transport is acquired.
AcquireOk(s) ==
  /\ tpc[s] = "acquire"
  /\ transport' = [transport EXCEPT ![s] = "open"]
  /\ tpc' = [tpc EXCEPT ![s] = IF Kind(s) = "Serial" THEN "serial_loop" ELSE "tcp_loop"]
  /\ UNCHANGED <<supVars, created, sdev, running, fault, notified, reports,
                 stopInvoked, startRet, callVars>>
  /\ ret' = NoRet

\* bind/listen raises, or the serial configuration / open raises.
AcquireFails(s) ==
  /\ tpc[s] = "acquire"
  /\ ExceptBlock(s, "acquire")
  /\ UNCHANGED <<supVars, created, sdev, running, transport, reports,
                 stopInvoked, startRet, callVars>>
  /\ ret' = NoRet

\* _listen_tcp line 79: `while self.running`; leaving the loop leaves the
\* `with socket` block, which closes the listening socket.
TcpLoopCheck(s) ==
  /\ tpc[s] = "tcp_loop"
  /\ IF running[s]
       THEN /\ tpc' = [tpc EXCEPT ![s] = "accept"]
            /\ UNCHANGED transport
       ELSE /\ tpc' = [tpc EXCEPT ![s] = "finally"]
            /\ transport' = [transport EXCEPT ![s] = "closed"]
  /\ UNCHANGED <<supVars, created, sdev, running, fault, notified, reports,
                 stopInvoked, startRet, callVars>>
  /\ ret' = NoRet

\* line 80: sock.accept() returns only when an instrument connects (the
\* listening socket has no timeout).
TcpAccept(s) ==
  /\ tpc[s] = "accept"
  /\ tpc' = [tpc EXCEPT ![s] = "conn"]
  /\ UNCHANGED <<supVars, created, sdev, running, transport, fault, notified,
                 reports, stopInvoked, startRet, callVars>>
  /\ ret' = NoRet

\* _handle_connection 154-160: recv timed out (3 s) and the loop condition
\* `while self.running` is found false; the handler returns.
ConnStopNoticed(s) ==
  /\ tpc[s] = "conn"
  /\ ~running[s]
  /\ tpc' = [tpc EXCEPT ![s] = "tcp_loop"]
  /\ UNCHANGED <<supVars, created, sdev, running, transport, fault, notified,
                 reports, stopInvoked, startRet, callVars>>
  /\ ret' = NoRet

\* _handle_connection 162-229: the peer closed or completed its message; the
\* message is processed and the handler returns to the accept loop.
ConnFinished(s) ==
  /\ tpc[s] = "conn"
  /\ tpc' = [tpc EXCEPT ![s] = "tcp_loop"]
  /\ UNCHANGED <<supVars, created, sdev, running, transport, fault, notified,
                 reports, stopInvoked, startRet, callVars>>
  /\ ret' = NoRet

\* an I/O error raised by accept / recv / sendall leaves the `with` blocks
\* (socket closed) and reaches the except block of _listen.
TcpFault(s) ==
  /\ tpc[s] \in {"accept", "conn"}
  /\ transport' = [transport EXCEPT ![s] = "closed"]
  /\ ExceptBlock(s, "runtime")
  /\ UNCHANGED <<supVars, created, sdev, running, reports,
                 stopInvoked, startRet, callVars>>
  /\ ret' = NoRet

\* _listen_serial line 108: `while self.running`.
SerialLoopCheck(s) ==
  /\ tpc[s] = "serial_loop"
  /\ tpc' = [tpc EXCEPT ![s] = IF running[s] THEN "serial_poll" ELSE "finally"]
  /\ UNCHANGED <<supVars, created, sdev, running, transport, fault, notified,
                 reports, stopInvoked, startRet, callVars>>
  /\ ret' = NoRet

\* lines 109-141: one poll of in_waiting on the open port (bytes, if any, are
\* read and processed), back to the loop condition.
SerialPoll(s) ==
  /\ tpc[s] = "serial_poll"
  /\ transport[s] = "open"
  /\ tpc' = [tpc EXCEPT ![s] = "serial_loop"]
  /\ UNCHANGED <<supVars, created, sdev, running, transport, fault, notified,
                 reports, stopInvoked, startRet, callVars>>
  /\ ret' = NoRet

\* line 109 on a port that stop() has closed: in_waiting raises.
SerialPollClosed(s) ==
  /\ tpc[s] = "serial_poll"
  /\ transport[s] = "closed"
  /\ ExceptBlock(s, "closed_port")
  /\ UNCHANGED <<supVars, created, sdev, running, transport, reports,
                 stopInvoked, startRet, callVars>>
  /\ ret' = NoRet

\* a read / write error on the open port.
SerialFault(s) ==
  /\ tpc[s] = "serial_poll"
  /\ transport[s] = "open"
  /\ ExceptBlock(s, "runtime")
  /\ UNCHANGED <<supVars, created, sdev, running, transport, reports,
                 stopInvoked, startRet, callVars>>
  /\ ret' = NoRet

\* _process_message (234-256) raises while a received message is handled: the
\* parser (parser.py 118-135, `split()[0]` on an empty SAMPLEID value), the
\* persistence call or the query path. Neither _handle_connection, _listen_tcp
\* nor _listen_serial catches it: it leaves the `with` blocks (socket closed)
\* and reaches the except block of _listen.
ProcessRaises(s) ==
  /\ \/ tpc[s] = "conn"
     \/ tpc[s] = "serial_poll" /\ transport[s] = "open"
  /\ transport' = [transport EXCEPT ![s] = IF Kind(s) = "TCP" THEN "closed" ELSE @]
  /\ ExceptBlock(s, "process")
  /\ UNCHANGED <<supVars, created, sdev, running, reports,
                 stopInvoked, startRet, callVars>>
  /\ ret' = NoRet

\* Faulty variant: Stopped is reported only when the loop ended without an
\* exception (an `else` in place of `finally`). C14 must reject it.
ListenFinally_OnlyOnCleanExit(s) ==
  /\ tpc[s] = "finally"
  /\ IF fault[s] = "none"
       THEN UpdateStatus(s, "Stopped")
       ELSE UNCHANGED <<listener_status, active_listeners, reports>>
  /\ tpc' = [tpc EXCEPT ![s] = "done"]
  /\ UNCHANGED <<machines, created, sdev, running, transport, fault, notified,
                 stopInvoked, startRet, callVars>>
  /\ ret' = NoRet

\* lines 69-70: report Stopped; the thread ends.
ListenFinally(s) ==
  /\ tpc[s] = "finally"
  /\ UpdateStatus(s, "Stopped")
  /\ tpc' = [tpc EXCEPT ![s] = "done"]
  /\ UNCHANGED <<machines, created, sdev, running, transport, fault, notified,
                 stopInvoked, startRet, callVars>>
  /\ ret' = NoRet

\* ------------------------------------------------------------ specification
\* steps a session thread takes on its own (no instrument, no I/O fault)
ThreadStep(s) ==
  \/ ListenReportRunning(s)
  \/ AcquireOk(s)
  \/ AcquireFails(s)
  \/ TcpLoopCheck(s)
  \/ ConnStopNoticed(s)
  \/ SerialLoopCheck(s)
  \/ SerialPoll(s)
  \/ SerialPollClosed(s)
  \/ ListenFinally(s)

\* a step of the Supervisor or of a session thread: no parser call and no
\* connection is followed here
LifeOnly == UNCHANGED <<parseVars, wireVars>>

Next ==
  \/ \E c \in Callers, d \in Devices : StartReturnsEarly(c, d) /\ LifeOnly
  \/ \E c \in Callers, d \in Devices : StartRegister(c, d) /\ LifeOnly
  \/ \E c \in Callers : StartLaunch(c) /\ LifeOnly
  \/ \E c \in Callers : StartRaised(c) /\ LifeOnly
  \/ \E c \in Callers, d \in Devices : StopReturnsEarly(c, d) /\ LifeOnly
  \/ \E c \in Callers, d \in Devices : StopLookup(c, d) /\ LifeOnly
  \/ \E c \in Callers : StopListener(c) /\ LifeOnly
  \/ \E c \in Callers : StopFinally(c) /\ LifeOnly
  \/ \E c \in Callers, seen_names \in RowSets : LoadMachines(c, seen_names) /\ LifeOnly
  \/ \E c \in Callers : LoadStopListener(c) /\ LifeOnly
  \/ \E s \in Sessions : ListenReportRunning(s) /\ LifeOnly
  \/ \E s \in Sessions : AcquireOk(s) /\ LifeOnly
  \/ \E s \in Sessions : AcquireFails(s) /\ LifeOnly
  \/ \E s \in Sessions : TcpLoopCheck(s) /\ LifeOnly
  \/ \E s \in Sessions : TcpAccept(s) /\ LifeOnly
  \/ \E s \in Sessions : ConnStopNoticed(s) /\ LifeOnly
  \/ \E s \in Sessions : ConnFinished(s) /\ LifeOnly
  \/ \E s \in Sessions : TcpFault(s) /\ LifeOnly
  \/ \E s \in Sessions : SerialLoopCheck(s) /\ LifeOnly
  \/ \E s \in Sessions : SerialPoll(s) /\ LifeOnly
  \/ \E s \in Sessions : SerialPollClosed(s) /\ LifeOnly
  \/ \E s \in Sessions : SerialFault(s) /\ LifeOnly
  \/ \E s \in Sessions : ListenFinally(s) /\ LifeOnly
  \/ \E s \in Sessions : ProcessRaises(s) /\ LifeOnly

Spec == Init /\ [][Next]_vars

\* The scheduler runs every started thread: each step a session thread can take
\* on its own is eventually taken, and a Supervisor call in progress continues.
\* Nothing obliges an instrument to connect or an operator to call the API.
FairSpec ==
  /\ Spec
  /\ \A s \in Sessions : WF_vars(ThreadStep(s) /\ LifeOnly)
  /\ \A c \in Callers : WF_vars((StartLaunch(c) \/ StopListener(c)
                                   \/ StopFinally(c) \/ LoadStopListener(c)) /\ LifeOnly)

\* ======================================================= text (str / bytes)
\* A Python str (or bytes) is a sequence of characters; a character is a
\* one-letter string, and the control characters are named:
\*   STX 0x02, ETX 0x03, EOT 0x04, ENQ 0x05, ACK 0x06, ETB 0x17,
\*   LF 0x0a, VT 0x0b, CR 0x0d, FS 0x1c, SP 0x20.
UpperLetters == <<"A","B","C","D","E","F","G","H","I","J","K","L","M",
                  "N","O","P","Q","R","S","T","U","V","W","X","Y","Z">>
LowerLetters == <<"a","b","c","d","e","f","g","h","i","j","k","l","m",
                  "n","o","p","q","r","s","t","u","v","w","x","y","z">>
Digits == {"0","1","2","3","4","5","6","7","8","9"}

IsDigit(ch) == ch \in Digits
IsAlpha(ch) == \E i \in DOMAIN UpperLetters : ch = UpperLetters[i] \/ ch = LowerLetters[i]
IsAlnum(ch) == IsAlpha(ch) \/ IsDigit(ch)
\* str.isspace: besides blank, tab and the line ends, Python counts VT, FF and
\* the separators FS, GS, RS, US as white space.
IsSpace(ch) == ch \in {"SP", "TAB", "LF", "VT", "FF", "CR", "FS", "GS", "RS", "US"}
\* str.lower / str.upper on one character
LowerCh(ch) ==
  IF \E i \in DOMAIN UpperLetters : ch = UpperLetters[i]
    THEN LowerLetters[CHOOSE i \in DOMAIN UpperLetters : ch = UpperLetters[i]]
    ELSE ch
UpperCh(ch) ==
  IF \E i \in DOMAIN LowerLetters : ch = LowerLetters[i]
    THEN UpperLetters[CHOOSE i \in DOMAIN LowerLetters : ch = LowerLetters[i]]
    ELSE ch
Lower(s) == [i \in 1..Len(s) |-> LowerCh(s[i])]
Upper(s) == [i \in 1..Len(s) |-> UpperCh(s[i])]

\* s[a:] and s[:b] with 0-based Python indices
From(s, a) == SubSeq(s, a + 1, Len(s))
UpTo(s, b) == SubSeq(s, 1, b)

StartsWith(s, p) == Len(s) >= Len(p) /\ SubSeq(s, 1, Len(p)) = p
StartsWithAny(s, ps) == \E p \in ps : StartsWith(s, p)

\* str.lstrip / rstrip / strip with a set of characters
RECURSIVE LStripSet(_, _)
LStripSet(s, cs) ==
  IF s # <<>> /\ Head(s) \in cs THEN LStripSet(Tail(s), cs) ELSE s
RECURSIVE RStripSet(_, _)
RStripSet(s, cs) ==
  IF s # <<>> /\ s[Len(s)] \in cs THEN RStripSet(UpTo(s, Len(s) - 1), cs) ELSE s
StripSet(s, cs) == RStripSet(LStripSet(s, cs), cs)
SpaceChars == {"SP", "TAB", "LF", "VT", "FF", "CR", "FS", "GS", "RS", "US"}
Strip(s) == StripSet(s, SpaceChars)

\* str.replace(c, "") for every c in cs
RemoveAll(s, cs) == SelectSeq(s, LAMBDA ch : ch \notin cs)

\* the position of the first character of s that is in cs; 0 when there is none
FirstIn(s, cs) ==
  LET hits == {i \in 1..Len(s) : s[i] \in cs}
  IN IF hits = {} THEN 0 ELSE CHOOSE i \in hits : \A j \in hits : i <= j

\* str.split(sep) for a one-character sep: the pieces between the separators,
\* empty pieces included
RECURSIVE SplitAcc(_, _, _)
SplitAcc(s, seps, cur) ==
  LET k == FirstIn(s, seps)
  IN IF k = 0 THEN <<cur \o s>>
     ELSE <<cur \o UpTo(s, k - 1)>> \o SplitAcc(From(s, k), seps, <<>>)
Split(s, sep) == SplitAcc(s, {sep}, <<>>)

\* str.split(sep, 1): at most one cut
Split1Acc(s, sep, cur) ==
  LET k == FirstIn(s, {sep})
  IN IF k = 0 THEN <<cur \o s>> ELSE <<cur \o UpTo(s, k - 1), From(s, k)>>
Split1(s, sep) == Split1Acc(s, sep, <<>>)

\* str.split(): the maximal runs of non-space characters
SplitWs(s) == SelectSeq(SplitAcc(s, SpaceChars, <<>>), LAMBDA p : p # <<>>)

\* re.split(r'[\r\n]+', s): cut at every run of CR / LF; a run at either end
\* leaves an empty piece there
RECURSIVE ReSplitAcc(_, _, _)
ReSplitAcc(s, cur, inrun) ==
  LET k == FirstIn(s, {"CR", "LF"})
  IN IF k = 0 THEN <<cur \o s>>
     ELSE IF k = 1 /\ inrun THEN ReSplitAcc(Tail(s), cur, TRUE)
     ELSE <<cur \o UpTo(s, k - 1)>> \o ReSplitAcc(From(s, k), <<>>, TRUE)
ReSplitLines(s) == ReSplitAcc(s, <<>>, FALSE)

\* str.splitlines(): cut at LF, CR, CR LF, VT, FF, FS, GS, RS; no empty piece
\* after a final line end
LineEnds == {"LF", "CR", "VT", "FF", "FS", "GS", "RS"}
RECURSIVE SplitLinesAcc(_, _)
SplitLinesAcc(s, cur) ==
  LET k == FirstIn(s, LineEnds)
  IN IF k = 0 THEN (IF cur \o s = <<>> THEN <<>> ELSE <<cur \o s>>)
     ELSE IF s[k] = "CR" /\ k < Len(s) /\ s[k + 1] = "LF"
            THEN <<cur \o UpTo(s, k - 1)>> \o SplitLinesAcc(From(s, k + 1), <<>>)
     ELSE <<cur \o UpTo(s, k - 1)>> \o SplitLinesAcc(From(s, k), <<>>)
SplitLines(s) == SplitLinesAcc(s, <<>>)

\* sep.join(parts)
RECURSIVE Join(_, _)
Join(parts, sep) ==
  IF parts = <<>> THEN <<>>
  ELSE IF Len(parts) = 1 THEN parts[1]
  ELSE parts[1] \o sep \o Join(Tail(parts), sep)

\* ============================================= communication/parser.py
\* A NormalizedResult (machine_id, status and updated_at do not depend on the
\* message and are left out).
NormalizedResult(sid, code, res) == [sample_id |-> sid, parameter_code |-> code, result |-> res]

\* param_map.get(key): the mapped code, or the empty text for None (both are
\* false in the parser's `if parameter_code and ...`).
MapGet(param_map, key) == IF key \in DOMAIN param_map THEN param_map[key] ELSE <<>>

\* re.sub(r"^[^A-Za-z0-9]+|[^A-Za-z0-9]+$", "", s)
RECURSIVE LStripNonAlnum(_)
LStripNonAlnum(s) == IF s # <<>> /\ ~IsAlnum(Head(s)) THEN LStripNonAlnum(Tail(s)) ELSE s
RECURSIVE RStripNonAlnum(_)
RStripNonAlnum(s) ==
  IF s # <<>> /\ ~IsAlnum(s[Len(s)]) THEN RStripNonAlnum(UpTo(s, Len(s) - 1)) ELSE s
CleanEnds(s) == RStripNonAlnum(LStripNonAlnum(s))

\* Faulty variant: the first non-empty component is taken, letters or not.
\* C28 must reject it.
NormalizeCode_FirstComponent(raw_code) ==
  IF raw_code = <<>> THEN <<>>
  ELSE LET parts == SelectSeq(Split(raw_code, "^"), LAMBDA p : p # <<>>)
       IN IF parts = <<>> THEN Lower(Strip(CleanEnds(raw_code)))
          ELSE Lower(Strip(CleanEnds(parts[1])))

\* _normalize_code, lines 9-21
NormalizeCode(raw_code) ==
  IF raw_code = <<>> THEN <<>>
  ELSE LET parts == SelectSeq(Split(raw_code, "^"), LAMBDA p : p # <<>>)
           HasAlpha(p) == \E i \in 1..Len(CleanEnds(p)) : IsAlpha(CleanEnds(p)[i])
       IN IF parts = <<>> THEN Lower(Strip(CleanEnds(raw_code)))
          ELSE IF \E i \in 1..Len(parts) : HasAlpha(parts[i])
                 THEN LET k == CHOOSE i \in 1..Len(parts) :
                                 HasAlpha(parts[i]) /\ \A j \in 1..(i - 1) : ~HasAlpha(parts[j])
                      IN Lower(Strip(CleanEnds(parts[k])))
          ELSE Lower(Strip(CleanEnds(parts[Len(parts)])))

\* _strip_controls, lines 23-30
ControlChars == {"STX", "ETX", "EOT", "ENQ", "FS"}
StripControls(message) == RemoveAll(message, ControlChars)

\* _strip_frame_prefix, lines 33-36
RECURSIVE StripFramePrefix(_)
StripFramePrefix(segment) ==
  IF segment # <<>> /\ IsDigit(Head(segment)) THEN StripFramePrefix(Tail(segment)) ELSE segment

AstmPrefixes == {<<"H","|">>, <<"P","|">>, <<"O","|">>, <<"R","|">>,
                 <<"L","|">>, <<"C","|">>, <<"M","|">>}

\* Faulty variant: the record lines are looked at before the MSH| test. C27
\* must reject it.
DetectProtocol_RecordsFirst(msg) ==
  LET cleaned == Strip(LStripSet(StripControls(msg), {"VT"}))
      lines   == SplitLines(cleaned)
  IN IF \E i \in 1..Len(lines) :
          StartsWithAny(StripFramePrefix(Strip(lines[i])), AstmPrefixes)
       THEN "ASTM"
     ELSE IF StartsWith(cleaned, <<"M","S","H","|">>) THEN "HL7"
     ELSE "UNKNOWN"

\* detect_protocol, lines 39-51
DetectProtocol(msg) ==
  LET cleaned == Strip(LStripSet(StripControls(msg), {"VT"}))
      lines   == SplitLines(cleaned)
  IN IF StartsWith(cleaned, <<"M","S","H","|">>) THEN "HL7"
     ELSE IF \E i \in 1..Len(lines) :
               StartsWithAny(StripFramePrefix(Strip(lines[i])), AstmPrefixes)
            THEN "ASTM"
     ELSE "UNKNOWN"

\* Faulty variant: the OBX branch without the `and result` test. C15 must
\* reject it.
RECURSIVE ParseHl7Lines_NoValueTest(_, _, _, _)
ParseHl7Lines_NoValueTest(lines, param_map, sample_id, results) ==
  IF lines = <<>> THEN results
  ELSE LET line   == Head(lines)
           fields == Split(line, "|")
           sid1   == IF StartsWith(line, <<"P","I","D">>) /\ Len(fields) > 3
                          /\ Strip(fields[4]) # <<>>
                       THEN Strip(fields[4]) ELSE sample_id
           sid2   == IF StartsWith(line, <<"O","B","R">>) /\ Len(fields) > 3
                          /\ sid1 = <<>> /\ Strip(fields[3]) # <<>>
                       THEN Strip(fields[3]) ELSE sid1
           isobx  == StartsWith(line, <<"O","B","X">>) /\ Len(fields) >= 6
           pcode  == IF isobx THEN MapGet(param_map, NormalizeCode(Strip(fields[4]))) ELSE <<>>
           res    == IF isobx THEN Strip(fields[6]) ELSE <<>>
           out    == IF isobx /\ pcode # <<>> /\ sid2 # <<>>
                       THEN Append(results, NormalizedResult(sid2, pcode, res))
                       ELSE results
       IN ParseHl7Lines_NoValueTest(Tail(lines), param_map, sid2, out)

\* parse_hl7, lines 53-81: the loop over the lines, carrying sample_id and results
RECURSIVE ParseHl7Lines(_, _, _, _)
ParseHl7Lines(lines, param_map, sample_id, results) ==
  IF lines = <<>> THEN results
  ELSE LET line   == Head(lines)
           fields == Split(line, "|")
           sid1   == IF StartsWith(line, <<"P","I","D">>) /\ Len(fields) > 3
                          /\ Strip(fields[4]) # <<>>
                       THEN Strip(fields[4]) ELSE sample_id
           sid2   == IF StartsWith(line, <<"O","B","R">>) /\ Len(fields) > 3
                          /\ sid1 = <<>> /\ Strip(fields[3]) # <<>>
                       THEN Strip(fields[3]) ELSE sid1
           isobx  == StartsWith(line, <<"O","B","X">>) /\ Len(fields) >= 6
           pcode  == IF isobx THEN MapGet(param_map, NormalizeCode(Strip(fields[4]))) ELSE <<>>
           res    == IF isobx THEN Strip(fields[6]) ELSE <<>>
           out    == IF isobx /\ pcode # <<>> /\ sid2 # <<>> /\ res # <<>>
                       THEN Append(results, NormalizedResult(sid2, pcode, res))
                       ELSE results
       IN ParseHl7Lines(Tail(lines), param_map, sid2, out)
ParseHl7(msg, param_map) == ParseHl7Lines(Split(msg, "CR"), param_map, <<>>, <<>>)

\* What a parser call produces: the list it returns, or the exception it raises.
Returned(results) == [raised |-> FALSE, results |-> results]
Raised == [raised |-> TRUE, results |-> <<>>]

\* _parse_plain_text, lines 123-135: the first loop. It yields the sample id and
\* the buffered lines, or raises IndexError when nothing follows the label
\* (`.split()[0]` of an empty list).
RECURSIVE PlainScan(_, _, _)
PlainScan(records, sample_id, buffer) ==
  IF records = <<>> THEN [raised |-> FALSE, sample_id |-> sample_id, buffer |-> buffer]
  ELSE LET line  == Strip(Head(records))
           upper == Upper(line)
           rest  == Tail(records)
       IN IF line = <<>> THEN PlainScan(rest, sample_id, buffer)
          ELSE IF StartsWith(upper, <<"D","A","T","E">>) \/ StartsWith(upper, <<"N","O",".">>)
                 THEN PlainScan(rest, sample_id, buffer)
          ELSE IF StartsWith(upper, <<"S","A","M","P","L","E","I","D">>)
                    \/ StartsWith(upper, <<"I","D",":">>)
                 THEN LET cut   == Split1(line, ":")
                          words == SplitWs(Strip(cut[Len(cut)]))
                      IN IF words = <<>>
                           THEN [raised |-> TRUE, sample_id |-> sample_id, buffer |-> buffer]
                           ELSE PlainScan(rest, StripSet(words[1], {"-"}), buffer)
          ELSE PlainScan(rest, sample_id, Append(buffer, line))

\* lines 140-157: the second loop, one buffered line at a time
RECURSIVE PlainEmit(_, _, _, _)
PlainEmit(buffer, param_map, sample_id, results) ==
  IF buffer = <<>> THEN results
  ELSE LET parts == SplitWs(Head(buffer))
           code  == IF Len(parts) < 2 THEN <<>> ELSE Strip(StripSet(parts[1], {":"}))
           value == IF Len(parts) < 2 THEN <<>> ELSE Strip(Join(Tail(parts), <<"SP">>))
           pcode == IF code = <<>> \/ value = <<>> THEN <<>>
                    ELSE MapGet(param_map, NormalizeCode(code))
           out   == IF pcode = <<>> THEN results
                    ELSE Append(results, NormalizedResult(sample_id, pcode, value))
       IN PlainEmit(Tail(buffer), param_map, sample_id, out)

\* _parse_plain_text, lines 118-159
ParsePlainText(records, param_map) ==
  LET scan == PlainScan(records, <<>>, <<>>)
  IN IF scan.raised THEN Raised
     ELSE IF scan.sample_id = <<>> THEN Returned(<<>>)
     ELSE Returned(PlainEmit(scan.buffer, param_map, scan.sample_id, <<>>))

\* Faulty variant: the loop ends at the first R record whose code is not
\* mapped. C26 must reject it.
RECURSIVE ParseAstmLines_StopsAtUnmapped(_, _, _, _)
ParseAstmLines_StopsAtUnmapped(records, param_map, sample_id, results) ==
  IF records = <<>> THEN results
  ELSE LET line   == StripFramePrefix(Strip(Head(records)))
           fields == Split(line, "|")
           sid    == IF line # <<>> /\ StartsWith(line, <<"O">>) /\ Len(fields) > 2
                       THEN Strip(fields[3]) ELSE sample_id
           isres  == line # <<>> /\ StartsWith(line, <<"R">>) /\ Len(fields) >= 4
           pcode  == IF isres THEN MapGet(param_map, NormalizeCode(Strip(fields[3]))) ELSE <<>>
           res    == IF isres THEN Strip(fields[4]) ELSE <<>>
           out    == IF isres /\ pcode # <<>> /\ sid # <<>> /\ res # <<>>
                       THEN Append(results, NormalizedResult(sid, pcode, res))
                       ELSE results
       IN IF isres /\ pcode = <<>> THEN results
          ELSE ParseAstmLines_StopsAtUnmapped(Tail(records), param_map, sid, out)

\* parse_astm, lines 94-114: the loop over the records
RECURSIVE ParseAstmLines(_, _, _, _)
ParseAstmLines(records, param_map, sample_id, results) ==
  IF records = <<>> THEN results
  ELSE LET line   == StripFramePrefix(Strip(Head(records)))
           fields == Split(line, "|")
           sid    == IF line # <<>> /\ StartsWith(line, <<"O">>) /\ Len(fields) > 2
                       THEN Strip(fields[3]) ELSE sample_id
           isres  == line # <<>> /\ StartsWith(line, <<"R">>) /\ Len(fields) >= 4
           pcode  == IF isres THEN MapGet(param_map, NormalizeCode(Strip(fields[3]))) ELSE <<>>
           res    == IF isres THEN Strip(fields[4]) ELSE <<>>
           out    == IF isres /\ pcode # <<>> /\ sid # <<>> /\ res # <<>>
                       THEN Append(results, NormalizedResult(sid, pcode, res))
                       ELSE results
       IN ParseAstmLines(Tail(records), param_map, sid, out)

\* parse_astm, lines 83-115
ParseAstm(msg, param_map) ==
  LET records == ReSplitLines(StripControls(msg))
      is_astm == \E i \in 1..Len(records) : StartsWithAny(Strip(records[i]), AstmPrefixes)
  IN IF ~is_astm THEN ParsePlainText(records, param_map)
     ELSE Returned(ParseAstmLines(records, param_map, <<>>, <<>>))

\* parse_message, lines 161-170
ParseMessage(msg, param_map) ==
  IF DetectProtocol(msg) = "HL7" THEN Returned(ParseHl7(msg, param_map))
  ELSE IF DetectProtocol(msg) = "ASTM" THEN ParseAstm(msg, param_map)
  ELSE Returned(<<>>)

\* ------------------------------------------------- parser calls (ParseSpec)
\* The lines messages are built from:
\*   MSH|^~                 header segment
\*   PID|||78||             patient segment, sample id in field 3
\*   OBR||78|x              order segment
\*   OBX|1|NM|WBC^Wh||5.6|  observation, mapped code
\*   OBX|1|NM|XY||5.6|      observation, unmapped code
\*   OBX|1|NM|WBC|| |       observation, blank value
\*   H|^&                   ASTM header
\*   O|1|78||WBC            ASTM order with sample id
\*   O|1| |                 ASTM order, blank sample id
\*   R|1|^^^WBC|5.6         ASTM result, mapped
\*   R|1|XY|5.6             ASTM result, unmapped
\*   R|1|WBC|               ASTM result, blank value
\*   2R|1|WBC|7             ASTM result behind a frame number
\*   SAMPLEID: 78           plain-text sample line
\*   SAMPLEID:              plain-text sample line without a value
\*   ID: -                  sample id of dashes only
\*   WBC 5.6                plain-text analyte line
\*   XY 5.6                 plain-text analyte line, unmapped
\*   DATE 1                 plain-text date line
Segments == {
  <<"M", "S", "H", "|", "^", "~">>,
  <<"P", "I", "D", "|", "|", "|", "7", "8", "|", "|">>,
  <<"O", "B", "R", "|", "|", "7", "8", "|", "x">>,
  <<"O", "B", "X", "|", "1", "|", "N", "M", "|", "W", "B", "C", "^", "W", "h", "|", "|", "5", ".", "6", "|">>,
  <<"O", "B", "X", "|", "1", "|", "N", "M", "|", "X", "Y", "|", "|", "5", ".", "6", "|">>,
  <<"O", "B", "X", "|", "1", "|", "N", "M", "|", "W", "B", "C", "|", "|", "SP", "|">>,
  <<"H", "|", "^", "&">>,
  <<"O", "|", "1", "|", "7", "8", "|", "|", "W", "B", "C">>,
  <<"O", "|", "1", "|", "SP", "|">>,
  <<"R", "|", "1", "|", "^", "^", "^", "W", "B", "C", "|", "5", ".", "6">>,
  <<"R", "|", "1", "|", "X", "Y", "|", "5", ".", "6">>,
  <<"R", "|", "1", "|", "W", "B", "C", "|", "SP">>,
  <<"2", "R", "|", "1", "|", "W", "B", "C", "|", "7">>,
  <<"S", "A", "M", "P", "L", "E", "I", "D", ":", "SP", "7", "8">>,
  <<"S", "A", "M", "P", "L", "E", "I", "D", ":">>,
  <<"I", "D", ":", "SP", "-">>,
  <<"W", "B", "C", "SP", "5", ".", "6">>,
  <<"X", "Y", "SP", "5", ".", "6">>,
  <<"D", "A", "T", "E", "SP", "1">> }

MaxLines == 3     \* lines per message

\* every message of 1..MaxLines lines, its lines joined by CR or by LF
RECURSIVE SeqsUpTo(_, _)
SeqsUpTo(S, n) ==
  IF n = 0 THEN {<<>>}
  ELSE SeqsUpTo(S, n - 1) \cup {Append(q, x) : q \in {r \in SeqsUpTo(S, n - 1) : Len(r) = n - 1}, x \in S}
Messages ==
  {Join(ls, <<sep>>) : ls \in SeqsUpTo(Segments, MaxLines) \ {<<>>}, sep \in {"CR", "LF"}}

\* the ParamMaps: one mapping wbc -> WL, and the empty one
WbcKey == <<"w", "b", "c">>
ParamMaps == {[k \in {WbcKey} |-> <<"W", "L">>], [k \in {} |-> <<>>]}

\* the ParamMap of the end-to-end scenarios: wbc -> WBC_LIS
ExampleMap == [k \in {WbcKey} |-> <<"W", "B", "C", "_", "L", "I", "S">>]

\* the messages of the end-to-end scenarios: segment-framed records, a
\* line-delimited message, plain text, and plain text behind a DATE line
Scenario1 == <<"O", "|", "1", "|", "7", "7", "8", "|", "|", "W", "B", "C", "CR", "R", "|", "1", "|", "7", "7", "8", "|", "5", ".", "6">>
Scenario2 == <<"P", "I", "D", "|", "|", "|", "7", "7", "8", "|", "|", "CR", "O", "B", "X", "|", "1", "|", "N", "M", "|", "W", "B", "C", "^", "W", "h", "i", "t", "e", "SP", "C", "e", "l", "l", "SP", "C", "o", "u", "n", "t", "|", "|", "5", ".", "6", "|">>
Scenario3 == <<"S", "A", "M", "P", "L", "E", "I", "D", ":", "SP", "7", "7", "8", "LF", "W", "B", "C", "SP", "5", ".", "6", "LF">>
Scenario3Dated == <<"D", "A", "T", "E", ":", "SP", "2", "0", "2", "4", "-", "0", "1", "-", "0", "2", "LF">> \o Scenario3

\* further inputs of detect_protocol: an MLLP-wrapped header, a header behind
\* control bytes and blanks, numbered and indented records, prose, and bytes
\* that are not UTF-8 (xFF) alone and in front of a header
DetectInputs == {
  <<"VT", "M", "S", "H", "|", "^", "~", "\\", "&", "|", "A", "CR", "O", "B", "X", "|", "1", "|", "N", "M", "|", "W", "B", "C", "|", "|", "5", ".", "6", "|", "CR", "FS", "CR">>,
  <<"STX", "SP", "LF", "M", "S", "H", "|", "^", "~", "CR", "R", "|", "1", "|", "W", "B", "C", "|", "5", ".", "6">>,
  <<"ENQ", "STX", "1", "H", "|", "^", "&", "CR", "ETX">>,
  <<"r", "e", "s", "u", "l", "t", "SP", "f", "o", "l", "l", "o", "w", "s", "LF", "SP", "1", "2", "L", "|", "1", "|", "N">>,
  <<"x", "M", "S", "H", "|", "^", "~", "LF", "Q", "|", "1", "|", "^", "7", "7", "8">>,
  <<"t", "h", "e", "SP", "s", "a", "m", "p", "l", "e", "SP", "w", "a", "s", "SP", "h", "a", "e", "m", "o", "l", "y", "s", "e", "d">>,
  <<"xFF", "xFF">>,
  <<"xFF">> \o <<"M", "S", "H", "|", "^", "~">> }

Examples == {Scenario1, Scenario2, Scenario3, Scenario3Dated} \cup DetectInputs

\* raw instrument codes: up to MaxParts components joined by ^, and the code
\* ^^WBC^^conc
MaxParts == 3
CodeParts == {<<>>, <<"W", "B", "C">>, <<"1", "2">>, <<"c", "o", "n", "c">>, <<"-", "a", "1", "-">>, <<"SP", "7", "SP">>, <<"-", "-">>}
RawCodes ==
  {Join(ps, <<"^">>) : ps \in SeqsUpTo(CodeParts, MaxParts)} \cup {<<"^", "^", "W", "B", "C", "^", "^", "c", "o", "n", "c">>}

ParseInit ==
  /\ LifeInit /\ WireIdle
  /\ \/ call_msg \in Messages /\ call_map \in ParamMaps
     \/ call_msg \in Examples \cup RawCodes /\ call_map = ExampleMap
  /\ parsed = [fn |-> "pending", raised |-> FALSE, results |-> <<>>, text |-> <<>>]

Called(fn, out) == [fn |-> fn, raised |-> out.raised, results |-> out.results, text |-> <<>>]

\* what a call of a function that returns a str produced
CalledStr(fn, str) == [fn |-> fn, raised |-> FALSE, results |-> <<>>, text |-> str]

\* msg.decode(errors="ignore"): the bytes that are not UTF-8 are dropped
Decode(msg) == RemoveAll(msg, {"xFF"})

\* parse_message(msg, machine_id, param_map)
CallParseMessage ==
  /\ parsed.fn = "pending"
  /\ parsed' = Called("parse_message", ParseMessage(Decode(call_msg), call_map))
  /\ UNCHANGED <<lifeVars, wireVars, call_msg, call_map>>

\* parse_hl7(msg, machine_id, param_map)
CallParseHl7 ==
  /\ parsed.fn = "pending"
  /\ parsed' = Called("parse_hl7", Returned(ParseHl7(Decode(call_msg), call_map)))
  /\ UNCHANGED <<lifeVars, wireVars, call_msg, call_map>>

\* parse_astm(msg, machine_id, param_map), which falls back to _parse_plain_text
CallParseAstm ==
  /\ parsed.fn = "pending"
  /\ parsed' = Called("parse_astm", ParseAstm(Decode(call_msg), call_map))
  /\ UNCHANGED <<lifeVars, wireVars, call_msg, call_map>>

\* detect_protocol(msg): the name of the protocol, as a one-element text; the
\* try/except around its body (lines 40-50) lets no exception out
CallDetectProtocol ==
  /\ parsed.fn = "pending"
  /\ parsed' = CalledStr("detect_protocol", <<DetectProtocol(Decode(call_msg))>>)
  /\ UNCHANGED <<lifeVars, wireVars, call_msg, call_map>>

\* _normalize_code(raw_code)
CallNormalizeCode ==
  /\ parsed.fn = "pending"
  /\ parsed' = CalledStr("normalize_code", NormalizeCode(call_msg))
  /\ UNCHANGED <<lifeVars, wireVars, call_msg, call_map>>

ParseNext ==
  \/ CallParseMessage
  \/ CallParseHl7
  \/ CallParseAstm
  \/ CallDetectProtocol
  \/ CallNormalizeCode

ParseSpec == ParseInit /\ [][ParseNext]_vars

\* ============================== communication/unified_listener.py: replies
\* The byte value of a character: its place in the ASCII table.
AsciiTable == <<
  "NUL", "SOH", "STX", "ETX", "EOT", "ENQ", "ACK", "BEL", "BS", "TAB", "LF", "VT", "FF", "CR", "SO", "SI",
  "DLE", "DC1", "DC2", "DC3", "DC4", "NAK", "SYN", "ETB", "CAN", "EM", "SUB", "ESC", "FS", "GS", "RS", "US",
  "SP", "!", "DQUOTE", "#", "$", "%", "&", "'", "(", ")", "*", "+", ",", "-", ".", "/",
  "0", "1", "2", "3", "4", "5", "6", "7", "8", "9", ":", ";", "<", "=", ">", "?",
  "@", "A", "B", "C", "D", "E", "F", "G", "H", "I", "J", "K", "L", "M", "N", "O",
  "P", "Q", "R", "S", "T", "U", "V", "W", "X", "Y", "Z", "[", "\\", "]", "^", "_",
  "BACKTICK", "a", "b", "c", "d", "e", "f", "g", "h", "i", "j", "k", "l", "m", "n", "o",
  "p", "q", "r", "s", "t", "u", "v", "w", "x", "y", "z", "{", "|", "}", "~", "DEL" >>
Ord(ch) == (CHOOSE n \in 1..Len(AsciiTable) : AsciiTable[n] = ch) - 1

HexDigits == <<"0","1","2","3","4","5","6","7","8","9","A","B","C","D","E","F">>

\* f"{total:02X}"
Hex02(total) == <<HexDigits[(total \div 16) + 1], HexDigits[(total % 16) + 1]>>

RECURSIVE SumOrd(_)
SumOrd(data) ==
  IF data = <<>> THEN 0
  ELSE IF Len(data) = 1 THEN Ord(data[1])
  ELSE SumOrd(SubSeq(data, 1, Len(data) \div 2))
         + SumOrd(SubSeq(data, Len(data) \div 2 + 1, Len(data)))

\* _astm_checksum, lines 388-390
AstmChecksum(data) == Hex02(SumOrd(data) % 256)

\* max_len of _build_astm_frames, line 373
MaxFrameLen == 240

\* Faulty variant: the rest of the text starts one character late. C34 must
\* reject it.
RECURSIVE BuildFramesFrom_SkipsOne(_, _)
BuildFramesFrom_SkipsOne(text, seq) ==
  IF text = <<>> THEN <<>>
  ELSE LET piece    == UpTo(text, IF Len(text) < MaxFrameLen THEN Len(text) ELSE MaxFrameLen)
           rest     == From(text, Len(piece) + 1)
           seq_char == HexDigits[(seq % 8) + 1]
           body     == <<seq_char>> \o piece
           frame    == <<"STX">> \o body \o <<"ETX">> \o AstmChecksum(body) \o <<"CR", "LF">>
       IN <<frame>> \o BuildFramesFrom_SkipsOne(rest, seq + 1)

\* _build_astm_frames, lines 372-386: the while loop from sequence number seq
RECURSIVE BuildFramesFrom(_, _)
BuildFramesFrom(text, seq) ==
  IF text = <<>> THEN <<>>
  ELSE LET piece    == UpTo(text, IF Len(text) < MaxFrameLen THEN Len(text) ELSE MaxFrameLen)
           rest     == From(text, Len(piece))
           seq_char == HexDigits[(seq % 8) + 1]
           body     == <<seq_char>> \o piece
           frame    == <<"STX">> \o body \o <<"ETX">> \o AstmChecksum(body) \o <<"CR", "LF">>
       IN <<frame>> \o BuildFramesFrom(rest, seq + 1)

BuildAstmFrames(payload) == BuildFramesFrom(payload, 1)

\* datetime.datetime.now().strftime("%Y%m%d%H%M%S"): fourteen digits
Timestamp == <<"2", "0", "2", "4", "0", "1", "0", "2", "0", "3", "0", "4", "0", "5">>

\* _build_astm_order_response, lines 361-370
BuildAstmOrderResponse(sample_id, tests) ==
  LET test_field == Join(tests, <<"\\">>)
      lines == << <<"H", "|", "\\", "^", "&", "|", "|", "|", "L", "I", "S", "|", "|", "|", "|", "|", "|", "|", "P", "|", "1">>,
                  <<"P", "|", "1">>,
                  <<"O", "|", "1", "|">> \o sample_id \o <<"|", "|">> \o test_field \o <<"|", "R", "|">>
                     \o Timestamp \o <<"|", "|", "|", "|", "|", "|", "|", "|", "|", "O">>,
                  <<"L", "|", "1", "|", "N">> >>
  IN Join(lines, <<"CR">>) \o <<"CR">>

\* The persistence collaborator's get_pending_tests(sample_id) -> list of
\* lis_code: sample 778 has two pending tests, every other sample none.
Sample778 == <<"7", "7", "8">>
PendingTests(sample_id) ==
  IF sample_id = Sample778 THEN << <<"G", "L", "U">>, <<"U", "R", "E", "A">> >> ELSE <<>>

\* The persistence collaborator's get_machine_param_pairs(machine_id): the rows
\* of the device's code table, as _map_lis_to_instrument_tests reads them.
MachineParamPairs ==
  << [param_code |-> <<"A", "1">>, lis_code |-> <<"G", "L", "U">>],
     [param_code |-> <<"A", "2">>, lis_code |-> <<"U", "R", "E", "A">>] >>

\* lis_to_instr of lines 341-348: the instrument code of the last row whose
\* lis_code, stripped and lowered, is key; the empty text when there is none
LisToInstr(pairs, key) ==
  LET hits == {i \in 1..Len(pairs) : /\ Strip(pairs[i].param_code) # <<>>
                                     /\ Strip(pairs[i].lis_code) # <<>>
                                     /\ Lower(Strip(pairs[i].lis_code)) = key}
  IN IF hits = {} THEN <<>>
     ELSE Strip(pairs[CHOOSE i \in hits : \A j \in hits : j <= i].param_code)

\* `key in instr_to_lis`
InInstrToLis(pairs, key) ==
  \E i \in 1..Len(pairs) : /\ Strip(pairs[i].param_code) # <<>>
                           /\ Strip(pairs[i].lis_code) # <<>>
                           /\ Lower(Strip(pairs[i].param_code)) = key

\* _map_lis_to_instrument_tests, lines 339-359: the second loop
RECURSIVE MapTests(_, _)
MapTests(lis_tests, pairs) ==
  IF lis_tests = <<>> THEN <<>>
  ELSE LET key == Lower(Strip(Head(lis_tests)))
           one == IF key = <<>> THEN <<>>
                  ELSE IF LisToInstr(pairs, key) # <<>> THEN <<LisToInstr(pairs, key)>>
                  ELSE IF InInstrToLis(pairs, key) THEN <<key>>
                  ELSE <<>>
       IN one \o MapTests(Tail(lis_tests), pairs)

MapLisToInstrumentTests(lis_tests) == MapTests(lis_tests, MachineParamPairs)

\* _extract_astm_query_sample_id, lines 313-318: the sample id of the field
RECURSIVE FirstNumericPart(_)
FirstNumericPart(parts) ==
  IF parts = <<>> THEN <<>>
  ELSE LET part == Strip(Head(parts))
       IN IF part # <<>> /\ \A i \in 1..Len(part) : IsDigit(part[i]) THEN part
          ELSE FirstNumericPart(Tail(parts))

\* _extract_astm_query_sample_id, lines 306-319: the loop over the lines; the
\* empty text stands for None
RECURSIVE QueryScan(_)
QueryScan(lines) ==
  IF lines = <<>> THEN <<>>
  ELSE LET line   == StripFramePrefix(Strip(Head(lines)))
           fields == Split(line, "|")
       IN IF ~StartsWith(line, <<"Q", "|">>) \/ Len(fields) < 3 THEN QueryScan(Tail(lines))
          ELSE IF FirstNumericPart(Split(fields[3], "^")) # <<>>
                 THEN FirstNumericPart(Split(fields[3], "^"))
          ELSE Strip(fields[3])

\* _extract_astm_query_sample_id, lines 304-319
ExtractAstmQuerySampleId(message) == QueryScan(SplitLines(StripControls(message)))

\* _build_hl7_ack, lines 264-269: the control id of the last MSH segment
RECURSIVE MshId(_, _)
MshId(segments, msh_id) ==
  IF segments = <<>> THEN msh_id
  ELSE LET fields == Split(Head(segments), "|")
       IN MshId(Tail(segments),
                IF StartsWith(Head(segments), <<"M", "S", "H">>) /\ Len(fields) > 9
                  THEN fields[10] ELSE msh_id)

\* _build_hl7_ack, lines 263-274
BuildHl7Ack(original_message) ==
  LET msh_id == MshId(Split(Strip(original_message), "CR"), <<"U", "N", "K", "N", "O", "W", "N">>)
  IN <<"M", "S", "H", "|", "^", "~", "\\", "&", "|", "L", "I", "S", "|", "H", "O", "S", "P", "I", "T", "A", "L", "|", "D", "E", "V", "I", "C", "E", "|", "H", "I", "S", "|">> \o Timestamp \o <<"|", "|", "A", "C", "K", "^", "R", "0", "1", "|">> \o msh_id
       \o <<"|", "P", "|", "2", ".", "3", "CR", "M", "S", "A", "|", "A", "A", "|">> \o msh_id \o <<"FS", "CR">>

\* ============================ communication/unified_listener.py: the session
\* What a session does is recorded in log, in order: "msg" a message handed to
\* _process_message, "db" a result handed to update_lab_result, and the writes
\* to the transport: "ack" the byte 0x06, "hl7ack" an HL7 acknowledgment,
\* "frame" one frame of an order message, "eot" the byte 0x04.
Event(ev, data) == [ev |-> ev, data |-> data]
AckByte == Event("ack", <<"ACK">>)
EotByte == Event("eot", <<"EOT">>)

\* the result as update_lab_result receives it
DbEvent(result) ==
  Event("db", result.sample_id \o <<"|">> \o result.parameter_code \o <<"|">> \o result.result)

\* what a call did: the events in order, and whether it raised
Did(events, raised) == [events |-> events, raised |-> raised]

\* _handle_astm_query, lines 321-337, with the serial port open
HandleAstmQuery(sample_id) ==
  LET instrument_tests == MapLisToInstrumentTests(PendingTests(sample_id))
      response_text    == BuildAstmOrderResponse(sample_id, instrument_tests)
      frames           == BuildAstmFrames(response_text)
  IN [i \in 1..Len(frames) |-> Event("frame", frames[i])] \o <<EotByte>>

\* _process_message, lines 238-256, once detect_protocol (protocol),
\* _extract_astm_query_sample_id (sample_id) and parse_message (out) are known
Processed(message, src, protocol, sample_id, out) ==
  IF protocol = "ASTM" /\ sample_id # <<>> /\ src = "serial"
    THEN Did(<<Event("msg", message)>> \o HandleAstmQuery(sample_id), FALSE)
  ELSE IF out.raised THEN Did(<<Event("msg", message)>>, TRUE)
  ELSE Did(<<Event("msg", message)>>
           \o [i \in 1..Len(out.results) |-> DbEvent(out.results[i])]
           \o (IF protocol = "HL7" /\ src = "serial"
                 THEN <<Event("hl7ack", BuildHl7Ack(message))>> ELSE <<>>),
           FALSE)

\* _process_message, lines 234-256; src is its source argument
ProcessMessage(message, src, param_map) ==
  Processed(message, src, DetectProtocol(message), ExtractAstmQuerySampleId(message),
            ParseMessage(message, param_map))

\* the bytes that switch a connection to ASTM mode, line 167
AstmControlBytes == {"STX", "ETX", "EOT", "ENQ", "ETB"}

Contains(s, cs) == \E i \in 1..Len(s) : s[i] \in cs

tcpLocals == <<astm_mode, in_frame, expecting_checksum, frame_buf, astm_frames, message_bytes>>

\* conn.recv returns a chunk without ASTM control bytes on a connection that
\* has seen none: lines 156-174
RecvPlain ==
  /\ source = "tcp" /\ hpc = "recv"
  /\ stream # <<>>
  /\ ~astm_mode /\ ~Contains(Head(stream), AstmControlBytes)
  /\ stream' = Tail(stream)
  /\ message_bytes' = message_bytes \o Head(stream)
  /\ hpc' = IF Contains(Head(stream), {"FS"}) THEN "after" ELSE "recv"
  /\ UNCHANGED <<source, chunk, astm_mode, in_frame, expecting_checksum, frame_buf,
                 astm_frames, ser_buffer, log>>

\* conn.recv returns a chunk on a connection in ASTM mode, or one that switches
\* it to ASTM mode: lines 156-168; the for loop of line 176 follows
RecvFramed ==
  /\ source = "tcp" /\ hpc = "recv"
  /\ stream # <<>>
  /\ astm_mode \/ Contains(Head(stream), AstmControlBytes)
  /\ stream' = Tail(stream)
  /\ chunk' = Head(stream)
  /\ astm_mode' = TRUE
  /\ hpc' = "bytes"
  /\ UNCHANGED <<source, in_frame, expecting_checksum, frame_buf, astm_frames,
                 message_bytes, ser_buffer, log>>

\* conn.recv times out after 3 s with frames collected: lines 157-159. Without
\* frames the loop continues and nothing changes.
RecvTimeout ==
  /\ source = "tcp" /\ hpc = "recv"
  /\ astm_mode /\ astm_frames # <<>>
  /\ hpc' = "after"
  /\ UNCHANGED <<source, stream, chunk, tcpLocals, ser_buffer, log>>

\* conn.recv returns b"": the peer has sent everything and closed, lines 162-163
RecvClosed ==
  /\ source = "tcp" /\ hpc = "recv"
  /\ stream = <<>>
  /\ hpc' = "after"
  /\ UNCHANGED <<source, stream, chunk, tcpLocals, ser_buffer, log>>

\* `while self.running` finds the session stopped, line 154
RecvStopped ==
  /\ source = "tcp" /\ hpc = "recv"
  /\ stream # <<>>
  /\ hpc' = "after"
  /\ UNCHANGED <<source, stream, chunk, tcpLocals, ser_buffer, log>>

\* the for loop is over when no byte of the chunk is left
AfterByte(rest) == IF rest = <<>> THEN "recv" ELSE "bytes"

\* Faulty variant: the for loop without the CR/LF test of lines 196-197. C32
\* must reject it.
HandleByte_KeepsCrLf ==
  /\ source = "tcp" /\ hpc = "bytes"
  /\ chunk # <<>>
  /\ LET byte == Head(chunk)
         rest == Tail(chunk)
     IN IF byte = "ENQ"
          THEN /\ log' = Append(log, AckByte)
               /\ chunk' = rest /\ hpc' = AfterByte(rest)
               /\ UNCHANGED <<in_frame, expecting_checksum, frame_buf, astm_frames>>
        ELSE IF byte = "EOT"
          THEN \* break: the rest of the chunk is not looked at
               /\ chunk' = <<>> /\ hpc' = "recv"
               /\ UNCHANGED <<in_frame, expecting_checksum, frame_buf, astm_frames, log>>
        ELSE IF expecting_checksum > 0
          THEN /\ expecting_checksum' = expecting_checksum - 1
               /\ IF expecting_checksum' = 0
                    THEN /\ astm_frames' = IF frame_buf # <<>> THEN Append(astm_frames, frame_buf)
                                           ELSE astm_frames
                         /\ frame_buf' = <<>>
                         /\ log' = Append(log, AckByte)
                    ELSE UNCHANGED <<astm_frames, frame_buf, log>>
               /\ chunk' = rest /\ hpc' = AfterByte(rest)
               /\ UNCHANGED in_frame
        ELSE IF byte = "STX"
          THEN /\ in_frame' = TRUE
               /\ frame_buf' = <<>>
               /\ chunk' = rest /\ hpc' = AfterByte(rest)
               /\ UNCHANGED <<expecting_checksum, astm_frames, log>>
        ELSE IF in_frame /\ byte \in {"ETX", "ETB"}
          THEN /\ in_frame' = FALSE
               /\ expecting_checksum' = 2
               /\ chunk' = rest /\ hpc' = AfterByte(rest)
               /\ UNCHANGED <<frame_buf, astm_frames, log>>
        ELSE /\ frame_buf' = IF in_frame THEN Append(frame_buf, byte) ELSE frame_buf
             /\ chunk' = rest /\ hpc' = AfterByte(rest)
             /\ UNCHANGED <<in_frame, expecting_checksum, astm_frames, log>>
  /\ UNCHANGED <<source, stream, astm_mode, message_bytes, ser_buffer>>

\* One pass of the for loop of lines 176-211, on the first byte left of the chunk
HandleByte ==
  /\ source = "tcp" /\ hpc = "bytes"
  /\ chunk # <<>>
  /\ LET byte == Head(chunk)
         rest == Tail(chunk)
     IN IF byte = "ENQ"
          THEN /\ log' = Append(log, AckByte)
               /\ chunk' = rest /\ hpc' = AfterByte(rest)
               /\ UNCHANGED <<in_frame, expecting_checksum, frame_buf, astm_frames>>
        ELSE IF byte = "EOT"
          THEN \* break: the rest of the chunk is not looked at
               /\ chunk' = <<>> /\ hpc' = "recv"
               /\ UNCHANGED <<in_frame, expecting_checksum, frame_buf, astm_frames, log>>
        ELSE IF expecting_checksum > 0
          THEN /\ expecting_checksum' = expecting_checksum - 1
               /\ IF expecting_checksum' = 0
                    THEN /\ astm_frames' = IF frame_buf # <<>> THEN Append(astm_frames, frame_buf)
                                           ELSE astm_frames
                         /\ frame_buf' = <<>>
                         /\ log' = Append(log, AckByte)
                    ELSE UNCHANGED <<astm_frames, frame_buf, log>>
               /\ chunk' = rest /\ hpc' = AfterByte(rest)
               /\ UNCHANGED in_frame
        ELSE IF byte \in {"CR", "LF"}
          THEN /\ chunk' = rest /\ hpc' = AfterByte(rest)
               /\ UNCHANGED <<in_frame, expecting_checksum, frame_buf, astm_frames, log>>
        ELSE IF byte = "STX"
          THEN /\ in_frame' = TRUE
               /\ frame_buf' = <<>>
               /\ chunk' = rest /\ hpc' = AfterByte(rest)
               /\ UNCHANGED <<expecting_checksum, astm_frames, log>>
        ELSE IF in_frame /\ byte \in {"ETX", "ETB"}
          THEN /\ in_frame' = FALSE
               /\ expecting_checksum' = 2
               /\ chunk' = rest /\ hpc' = AfterByte(rest)
               /\ UNCHANGED <<frame_buf, astm_frames, log>>
        ELSE /\ frame_buf' = IF in_frame THEN Append(frame_buf, byte) ELSE frame_buf
             /\ chunk' = rest /\ hpc' = AfterByte(rest)
             /\ UNCHANGED <<in_frame, expecting_checksum, astm_frames, log>>
  /\ UNCHANGED <<source, stream, astm_mode, message_bytes, ser_buffer>>

\* Faulty variant: the acknowledgment without the `protocol == "HL7"` test.
\* C18 must reject it.
Delivered_AcksEveryMessage(did, framed, protocol, message) ==
  IF did.raised THEN did
  ELSE IF ~framed
    THEN Did(did.events \o <<Event("hl7ack", BuildHl7Ack(message))>>, FALSE)
  ELSE did

\* lines 216-229 once the message is processed: the HL7 acknowledgment follows
\* a message that was not put together from frames
Delivered(did, framed, protocol, message) ==
  IF did.raised THEN did
  ELSE IF ~framed /\ protocol = "HL7"
    THEN Did(did.events \o <<Event("hl7ack", BuildHl7Ack(message))>>, FALSE)
  ELSE did

\* lines 216-229: the frames, or else the plain bytes, are one message
HandleCollected(frames, bytes, param_map) ==
  IF frames # <<>>
    THEN Delivered(ProcessMessage(Join(frames, <<"CR">>), "tcp", param_map), TRUE, "ASTM", <<>>)
  ELSE IF bytes # <<>>
    THEN Delivered(ProcessMessage(bytes, "tcp", param_map), FALSE, DetectProtocol(bytes), bytes)
  ELSE Did(<<>>, FALSE)

\* After the while loop, lines 213-232
Deliver ==
  /\ source = "tcp" /\ hpc = "after"
  /\ \E did \in {HandleCollected(astm_frames, message_bytes, call_map)} :
       /\ log' = log \o did.events
       /\ hpc' = IF did.raised THEN "raised" ELSE "done"
  /\ UNCHANGED <<source, stream, chunk, tcpLocals, ser_buffer>>

\* _split_message, lines 440-448: the text before the first EOT or ETX and the
\* text after it; found is FALSE for None
SplitMessageAcc(s, cur) ==
  LET k == FirstIn(s, {"EOT", "ETX"})
  IN IF k = 0 THEN [found |-> FALSE, raw_message |-> cur \o s, remaining |-> <<>>]
     ELSE [found |-> TRUE, raw_message |-> cur \o UpTo(s, k - 1), remaining |-> From(s, k)]
SplitMessage(text) == SplitMessageAcc(text, <<>>)

\* lines 111-119: the bytes of the chunk that are kept in the buffer
KeptBytes(bytes) == SelectSeq(bytes, LAMBDA b : b \notin {"ENQ", "EOT"})

\* lines 112-115: one acknowledgment for every ENQ of the chunk
EnqAcks(bytes) == [i \in 1..Len(SelectSeq(bytes, LAMBDA b : b = "ENQ")) |-> AckByte]

\* two calls one after the other
Then(first, others) == Did(first.events \o others.events, others.raised)

\* lines 126-129: one text that ended with FS
ProcessPart(message, param_map) ==
  IF message # <<>> THEN ProcessMessage(message, "serial", param_map) ELSE Did(<<>>, FALSE)

\* lines 125-129: the for loop over the texts that end with FS
RECURSIVE ProcessParts(_, _)
RECURSIVE PartsAfter(_, _, _)
PartsAfter(first, parts, param_map) ==
  IF first.raised THEN first ELSE Then(first, ProcessParts(parts, param_map))
ProcessParts(parts, param_map) ==
  IF parts = <<>> THEN Did(<<>>, FALSE)
  ELSE PartsAfter(ProcessPart(StripSet(Head(parts), {"VT", "CR", "LF"}), param_map),
                  Tail(parts), param_map)

\* what one pass of the serial loop did, and the buffer it leaves
Pass(did, text) == [events |-> did.events, raised |-> did.raised, text |-> text]

\* lines 140-141: the acknowledgment follows the processing of the message
Acked(did) == IF did.raised THEN did ELSE Did(did.events \o <<AckByte>>, FALSE)

\* lines 138-141: one text that ended with ETX
ProcessFrame(raw_message, param_map) ==
  IF Strip(raw_message) # <<>> THEN Acked(ProcessMessage(raw_message, "serial", param_map))
  ELSE Did(<<>>, FALSE)

\* lines 133-141: the while loop over the texts that end with ETX; text is
\* the buffer that is left
RECURSIVE ProcessFrames(_, _)
RECURSIVE FramesSplit(_, _, _)
RECURSIVE FramesAfter(_, _, _)
PassAfter(first, others) == Pass(Then(first, others), others.text)
FramesAfter(first, remaining, param_map) ==
  IF first.raised THEN Pass(first, remaining)
  ELSE PassAfter(first, ProcessFrames(remaining, param_map))
FramesSplit(split_result, text, param_map) ==
  IF ~split_result.found THEN Pass(Did(<<>>, FALSE), text)
  ELSE FramesAfter(ProcessFrame(split_result.raw_message, param_map),
                   split_result.remaining, param_map)
ProcessFrames(text, param_map) == FramesSplit(SplitMessage(text), text, param_map)

\* lines 123-129: the buffer holds FS; parts are its pieces between the FS
Hl7Pass(parts, param_map) ==
  Pass(ProcessParts(SubSeq(parts, 1, Len(parts) - 1), param_map), parts[Len(parts)])

\* lines 121-141: the buffer after the bytes of the chunk were added
SerialPass(filled, param_map) ==
  IF Contains(filled, {"FS"}) THEN Hl7Pass(Split(filled, "FS"), param_map)
  ELSE ProcessFrames(filled, param_map)

\* One pass of the serial loop with bytes waiting, lines 109-141
SerialRead ==
  /\ source = "serial" /\ hpc = "poll"
  /\ stream # <<>>
  /\ stream' = Tail(stream)
  /\ \E pass \in {SerialPass(ser_buffer \o KeptBytes(Head(stream)), call_map)} :
       /\ ser_buffer' = pass.text
       /\ log' = log \o EnqAcks(Head(stream)) \o pass.events
       /\ hpc' = IF pass.raised THEN "raised" ELSE "poll"
  /\ UNCHANGED <<source, chunk, tcpLocals>>


\* ------------------------------------------- what an instrument sends (WireSpec)
\* a frame as an instrument sends it: STX, the text, ETX or ETB, the two
\* checksum characters, CR LF
Framed(body, end) == <<"STX">> \o body \o <<end>> \o AstmChecksum(body \o <<end>>) \o <<"CR", "LF">>

\* a transmission of four numbered frames, one record per frame: header,
\* order for sample 778, result for WBC, terminator
NumberedFrames ==
  Framed(<<"1", "H", "|", "^", "&">>, "ETX") \o Framed(<<"2", "O", "|", "1", "|", "7", "7", "8">>, "ETX")
    \o Framed(<<"3", "R", "|", "1", "|", "^", "^", "^", "W", "B", "C", "|", "5", ".", "6">>, "ETX") \o Framed(<<"4", "L", "|", "1", "|", "N">>, "ETX")

\* The chunks a read can return:
\*   ENQ                                  start of a transmission
\*   EOT                                  end of a transmission
\*   EOT ENQ                              end of one transmission, start of the next
\*   [1H|^& / O|1|78 / R|1|^^^WBC|5.6]    a frame of three records
\*   [2R|1|^^^WBC|7]                      a frame of one result record, ended by ETB
\*   [2Q|1|^778]                          a frame of one query record
\*   [1H|^& / Q|1|x^778]                  a frame of a header and a query record
\*   [1H|^& / SAMPLEID:]                  a frame the plain-text fallback fails on
\*   [MSH|^~]                             a frame without a number that holds an MSH segment
\*   STX 1H|        ^& ETX c c CR LF      one frame in two reads
\*   VT MSH.. CR PID.. CR OBX.. CR FS CR  an HL7 message in MLLP framing
\*   WBC 5.6 LF                           plain text
\*   [1H|^&][2O|1|778][3R|1|^^^WBC|5.6][4L|1|N]   four numbered frames in one read
ChunkPool == {
  NumberedFrames,
  <<"ENQ">>,
  <<"EOT">>,
  <<"EOT", "ENQ">>,
  Framed(<<"1", "H", "|", "^", "&", "CR", "O", "|", "1", "|", "7", "8", "CR", "R", "|", "1", "|", "^", "^", "^", "W", "B", "C", "|", "5", ".", "6">>, "ETX"),
  Framed(<<"2", "R", "|", "1", "|", "^", "^", "^", "W", "B", "C", "|", "7">>, "ETB"),
  Framed(<<"2", "Q", "|", "1", "|", "^", "7", "7", "8">>, "ETX"),
  Framed(<<"1", "H", "|", "^", "&", "CR", "Q", "|", "1", "|", "x", "^", "7", "7", "8">>, "ETX"),
  Framed(<<"1", "H", "|", "^", "&", "CR", "S", "A", "M", "P", "L", "E", "I", "D", ":">>, "ETX"),
  Framed(<<"M", "S", "H", "|", "^", "~">>, "ETX"),
  <<"STX", "1", "H", "|">>,
  <<"^", "&", "ETX", "E", "5", "CR", "LF">>,
  <<"VT", "M", "S", "H", "|", "^", "~", "\\", "&", "|", "a", "|", "b", "|", "c", "|", "d", "|", "e", "|", "|", "f", "|", "4", "2", "|", "P", "CR", "P", "I", "D", "|", "|", "|", "7", "8", "|", "|", "CR", "O", "B", "X", "|", "1", "|", "N", "M", "|", "W", "B", "C", "|", "|", "5", ".", "6", "|", "CR", "FS", "CR">>,
  <<"W", "B", "C", "SP", "5", ".", "6", "LF">> }

MaxChunks == 3     \* reads per connection

Streams == SeqsUpTo(ChunkPool, MaxChunks)

\* self.param_map of the session: wbc -> WL
SessionParamMap == [k \in {WbcKey} |-> <<"W", "L">>]

\* A session that has just accepted a connection (tcp) or opened its port
\* (serial); stream is what the instrument will send.
WireInit ==
  /\ LifeInit
  /\ call_map = SessionParamMap
  /\ parsed = [fn |-> "idle", raised |-> FALSE, results |-> <<>>, text |-> <<>>]
  /\ source \in {"tcp", "serial"}
  /\ stream \in Streams
  /\ call_msg = Join(stream, <<>>)     \* every byte the instrument will send
  /\ hpc = IF source = "tcp" THEN "recv" ELSE "poll"
  /\ chunk = <<>>
  /\ astm_mode = FALSE /\ in_frame = FALSE /\ expecting_checksum = 0
  /\ frame_buf = <<>> /\ astm_frames = <<>> /\ message_bytes = <<>>
  /\ ser_buffer = <<>>
  /\ log = <<>>

WireOnly == UNCHANGED <<lifeVars, parseVars>>

WireNext ==
  \/ RecvPlain /\ WireOnly
  \/ RecvFramed /\ WireOnly
  \/ RecvTimeout /\ WireOnly
  \/ RecvClosed /\ WireOnly
  \/ RecvStopped /\ WireOnly
  \/ HandleByte /\ WireOnly
  \/ Deliver /\ WireOnly
  \/ SerialRead /\ WireOnly

WireSpec == WireInit /\ [][WireNext]_vars

\* ------------------------------------------------------------------------
\* The query response on the wire: _handle_astm_query from the response text
\* on (unified_listener.py 329-335), for orders of 0..MaxTests tests.

\* the largest number of tests of one order: enough for nine frames
MaxTests == 62

\* an instrument code of 29 characters
LongTestCode ==
  <<"G", "L", "U", "C", "O", "S", "E", "_", "F", "A", "S", "T", "I", "N", "G", "_", "S", "E", "R", "U", "M", "_", "P", "A", "N", "E", "L", "_", "1">>

\* instrument_tests of n tests with the code test_code
TestList(n, test_code) == [i \in 1..n |-> test_code]

\* the response texts: n tests of the long code (up to nine frames), and n
\* tests of a code of three characters (43 of them fill one frame exactly)
ResponseTexts ==
  {BuildAstmOrderResponse(Sample778, TestList(n, test_code)) :
     n \in 0..MaxTests, test_code \in {LongTestCode, <<"G", "L", "U">>}}

FrameInit ==
  /\ LifeInit /\ WireIdle
  /\ call_msg \in ResponseTexts
  /\ call_map = <<>>
  /\ parsed = [fn |-> "idle", raised |-> FALSE, results |-> <<>>, text |-> <<>>]

\* lines 330-335: every frame of _build_astm_frames(response_text) is written
\* to the serial port, then one EOT
SendFrames ==
  /\ log = <<>>
  /\ \E frames \in {BuildAstmFrames(call_msg)} :
       log' = [i \in 1..Len(frames) |-> Event("frame", frames[i])] \o <<EotByte>>
  /\ UNCHANGED <<lifeVars, parseVars, source, stream, chunk, hpc, tcpLocals, ser_buffer>>

FrameNext == SendFrames

FrameSpec == FrameInit /\ [][FrameNext]_vars

\* ------------------------------------------------------------------------
\* DBHandler.get_param_map (db/db_handler.py 206-262) on the rows of the
\* MachineParam table of a device (MapSpec).

\* a row as _fetch_dicts returns it
Row(param_code, lis_code) == [param_code |-> param_code, lis_code |-> lis_code]

\* The rows a table can hold:
\*   WBC / WL            both codes short and alphanumeric
\*   WBC^conc / W1       instrument code with a delimiter
\*   White-Cells / WBC   the two columns filled the other way round
\*   HGB1234 / Hb        instrument code of seven characters
\*   (empty) / X         no instrument code
\*   " rbc " / "RL "     codes with blanks around them
\*   wbc / WL2           the first row's instrument code in lowercase
\*   K / W-long-code     short instrument code, long LIS code
\*   A / WL              a second instrument code for the LIS code WL
RowPool == {
  Row(<<"W", "B", "C">>, <<"W", "L">>),
  Row(<<"W", "B", "C", "^", "c", "o", "n", "c">>, <<"W", "1">>),
  Row(<<"W", "h", "i", "t", "e", "-", "C", "e", "l", "l", "s">>, <<"W", "B", "C">>),
  Row(<<"H", "G", "B", "1", "2", "3", "4">>, <<"H", "b">>),
  Row(<<>>, <<"X">>),
  Row(<<"SP", "r", "b", "c", "SP">>, <<"R", "L", "SP">>),
  Row(<<"w", "b", "c">>, <<"W", "L", "2">>),
  Row(<<"K">>, <<"W", "-", "l", "o", "n", "g", "-", "c", "o", "d", "e">>),
  Row(<<"A">>, <<"W", "L">>) }

MaxRows == 3     \* rows per table

RowLists == SeqsUpTo(RowPool, MaxRows)

\* a dict as a list of <<key, value>> in insertion order; d[key] = value
DictPut(d, key, value) ==
  IF \E i \in 1..Len(d) : d[i][1] = key
    THEN [i \in 1..Len(d) |-> IF d[i][1] = key THEN <<key, value>> ELSE d[i]]
    ELSE Append(d, <<key, value>>)

\* lines 241-248: the case-insensitive map of the rows
RECURSIVE BuildMapping(_, _)
BuildMapping(rows, mapping) ==
  IF rows = <<>> THEN mapping
  ELSE LET key == Strip(Head(rows).param_code)
           val == Strip(Head(rows).lis_code)
       IN BuildMapping(Tail(rows),
                       IF key = <<>> \/ val = <<>> THEN mapping
                       ELSE DictPut(mapping, Lower(key), val))

\* line 258: {value.lower(): key for key, value in mapping.items() if value}
RECURSIVE SwapMapping(_, _)
SwapMapping(items, swapped) ==
  IF items = <<>> THEN swapped
  ELSE SwapMapping(Tail(items), DictPut(swapped, Lower(Head(items)[2]), Head(items)[1]))

\* _score, lines 250-255: the keys that are alphanumeric and at most 5 long
KeyScore(d) ==
  Cardinality({i \in 1..Len(d) : /\ d[i][1] # <<>>
                                 /\ \A j \in 1..Len(d[i][1]) : IsAlnum(d[i][1][j])
                                 /\ Len(d[i][1]) <= 5})

\* Faulty variant: the inverse map is returned on a tie as well. C35 must
\* reject it.
ChooseMap_InverseOnTie(mapping, swapped) ==
  IF swapped # <<>> /\ KeyScore(swapped) >= KeyScore(mapping) THEN swapped ELSE mapping

\* lines 257-262: the map that is returned
ChooseMap(mapping, swapped) ==
  IF swapped # <<>> /\ KeyScore(swapped) > KeyScore(mapping) THEN swapped ELSE mapping

\* get_param_map, lines 241-262, from the rows fetched
GetParamMap(rows) ==
  ChooseMap(BuildMapping(rows, <<>>), SwapMapping(BuildMapping(rows, <<>>), <<>>))

\* the dict as a function from its keys
DictOf(d) == [key \in {d[i][1] : i \in 1..Len(d)} |-> d[CHOOSE i \in 1..Len(d) : d[i][1] = key][2]]

MapInit ==
  /\ LifeInit /\ WireIdle
  /\ call_msg \in RowLists
  /\ call_map = <<>>
  /\ parsed = [fn |-> "pending", raised |-> FALSE, results |-> <<>>, text |-> <<>>]

\* get_param_map(machine_id) with the rows call_msg in the table
CallGetParamMap ==
  /\ parsed.fn = "pending"
  /\ parsed' = [parsed EXCEPT !.fn = "get_param_map"]
  /\ call_map' = DictOf(GetParamMap(call_msg))
  /\ UNCHANGED <<lifeVars, wireVars, call_msg>>

MapNext == CallGetParamMap

MapSpec == MapInit /\ [][MapNext]_vars

\* ==================================================================== claims
LiveUnits(d) == {s \in Sessions : sdev[s] = d /\ ThreadAlive(s)}

StartCall(c, d) == StartReturnsEarly(c, d) \/ StartRegister(c, d)
StopCall(c, d)  == StopReturnsEarly(c, d) \/ StopLookup(c, d)

\* C1: at most one session with a live execution unit exists per device, in
\* every reachable state (so stop(name) then start(name) never leaves the old
\* unit alive next to the new one).
C1_OneLiveUnitPerDevice ==
  \A d \in Devices : Cardinality(LiveUnits(d)) <= 1

\* C2: a session has reported Running only if it has acquired its transport
\* (the socket is bound and listening, or the port is open, now or earlier).
C2_RunningOnlyAfterAcquire ==
  \A s \in Sessions :
    (Len(reports[s]) > 0 /\ reports[s][1] = "Running") => transport[s] # "none"

\* C3: once stop() has cleared the running flag of a session whose thread is
\* alive, the thread eventually ends (having reported Stopped), whether or not
\* an instrument sends anything.
C3_StopEventuallyEndsThread ==
  \A s \in Sessions :
    (stopInvoked[s] /\ ~running[s] /\ ThreadAlive(s)) ~> (tpc[s] = "done")

\* C4: start(name) on a configured device whose registered session was started
\* successfully and holds its transport returns success, keeps that session as
\* the device's one entry of the active set, builds no session and starts no
\* thread.
C4_SecondStartIsNoOp ==
  [][\A c \in Callers, d \in Devices :
       (/\ d \in machines
        /\ active_listeners[d] # NoSession
        /\ transport[active_listeners[d]] = "open"
        /\ StartCall(c, d))
       => (/\ startRet[active_listeners[d]] = "success"
           /\ ret' = Result("start", TRUE, "already running")
           /\ active_listeners' = active_listeners
           /\ created' = created
           /\ tpc' = tpc
           /\ cpc'[c] = "idle")]_vars

C4_Witness ==
  /\ ret = Result("start", TRUE, "already running")
  /\ \E d \in machines :
       /\ active_listeners[d] # NoSession
       /\ transport[active_listeners[d]] = "open"
       /\ startRet[active_listeners[d]] = "success"
       /\ Cardinality({s \in Sessions : sdev[s] = d}) = 1

\* C5: stop(name) for a device with no session in the active set returns a
\* failure result (it does not raise: the call ends in this step) and leaves
\* the active set and the status table as they were.
C5_StopWithoutSessionFails ==
  [][\A c \in Callers, d \in Devices :
       (active_listeners[d] = NoSession /\ StopCall(c, d))
       => (/\ ret'.op = "stop"
           /\ ~ret'.success
           /\ cpc'[c] = "idle"
           /\ active_listeners' = active_listeners
           /\ listener_status' = listener_status)]_vars

C5_Witness ==
  /\ ret = Result("stop", FALSE, "not running")
  /\ \E d \in machines : active_listeners[d] = NoSession /\ listener_status[d] = "Stopped"

\* C6: the step that ends stop(name) for a device that had a session leaves the
\* device's status Stopped and no session for it in the active set, whether or
\* not listener.stop() raised, and returns success = FALSE exactly when it raised.
C6_StopAlwaysCleansUp ==
  [][\A c \in Callers :
       (cpc[c] = "stop_finally" /\ cpc'[c] # "stop_finally")
       => (/\ cpc'[c] = "idle"
           /\ listener_status'[cdev[c]] = "Stopped"
           /\ active_listeners'[cdev[c]] = NoSession
           /\ ret'.op = "stop"
           /\ (ret'.success <=> ~craised[c]))]_vars

C6_Witness ==
  /\ ret = Result("stop", FALSE, "Failed to stop")
  /\ \E d \in Devices : listener_status[d] = "Stopped" /\ active_listeners[d] = NoSession

\* C7: the step in which a session reports a status sets the device's entry of
\* the status table to that status and, when the status is Stopped, leaves no
\* session registered for the device in the same step; a Running report leaves
\* the active set as it was.
C7_CallbackIsAtomic ==
  [][\A s \in Sessions :
       (reports'[s] # reports[s])
       => LET st == reports'[s][Len(reports'[s])] IN
            /\ reports'[s] = Append(reports[s], st)
            /\ listener_status'[sdev[s]] = st
            /\ (st = "Stopped" => active_listeners'[sdev[s]] = NoSession)
            /\ (st # "Stopped" => active_listeners' = active_listeners)]_vars

C7_Witness ==
  \E s \in Sessions :
    /\ reports[s] = <<"Running", "Stopped">>
    /\ listener_status[sdev[s]] = "Stopped"
    /\ active_listeners[sdev[s]] = NoSession
    /\ \A c \in Callers : cpc[c] = "idle"
    /\ ~stopInvoked[s]

\* C8: load_machines removes from the active set the session of every device
\* that is not among the fetched rows and calls stop() on each of them before it
\* returns; the session and the status entry of a device that stays configured are
\* unchanged; a device that was never configured before gets status Stopped.
C8_ReloadDiscardsRemoved ==
  [][\A c \in Callers :
       /\ \A rows \in RowSets :
            LoadMachines(c, rows) =>
              /\ \A d \in machines \ rows :
                   /\ active_listeners'[d] = NoSession
                   /\ active_listeners[d] # NoSession => active_listeners[d] \in ctostop'[c]
              /\ \A d \in machines \cap rows :
                   /\ active_listeners'[d] = active_listeners[d]
                   /\ listener_status'[d] = listener_status[d]
              /\ \A d \in rows \ machines :
                   (\A s \in Sessions : sdev[s] # d) => listener_status'[d] = "Stopped"
              /\ (cpc'[c] = "idle" <=> ctostop'[c] = {})
       /\ (cpc[c] = "load_stop" /\ (cpc'[c] # cpc[c] \/ ctostop'[c] # ctostop[c]))
            => /\ \E s \in ctostop[c] : stopInvoked'[s] /\ ctostop'[c] = ctostop[c] \ {s}
               /\ (cpc'[c] = "idle" <=> ctostop'[c] = {})]_vars

C8_Witness ==
  \E c \in Callers, s \in Sessions :
    /\ cpc[c] = "idle"
    /\ sdev[s] = "ser1" /\ "ser1" \notin machines
    /\ stopInvoked[s] /\ listener_status["ser1"] = "Absent"
    /\ active_listeners["ser1"] = NoSession
    /\ active_listeners["tcp1"] # NoSession
    /\ listener_status["tcp1"] = "Running"

\* C9: a session whose transport acquisition failed is on its way out or ended,
\* has notified the alerting collaborator exactly once, and once its thread has
\* ended its last report is Stopped and it is not the registered session.
C9_AcquireFailureEndsSession ==
  \A s \in Sessions :
    fault[s] = "acquire" =>
      /\ tpc[s] \in {"finally", "done"}
      /\ notified[s] = 1
      /\ transport[s] = "none"
      /\ tpc[s] = "done" =>
           /\ reports[s][Len(reports[s])] = "Stopped"
           /\ active_listeners[sdev[s]] # s

C9_Witness ==
  \E s \in Sessions : fault[s] = "acquire" /\ tpc[s] = "done"

\* C10: start_machine does not return success for a session whose transport
\* acquisition fails.
C10_StartSurfacesAcquireFailure ==
  \A s \in Sessions : fault[s] = "acquire" => startRet[s] # "success"

\* C11: a session that hit an error while processing one received message is
\* still in its read loop (the error did not end the session).
C11_ProcessingErrorContained ==
  \A s \in Sessions :
    fault[s] = "process" => (ThreadAlive(s) /\ tpc[s] # "finally" /\ notified[s] = 0)

\* What a step about device d leaves alone: the entries of every other device
\* in the active set and the status table, and the sessions of other devices.
Frame(d) ==
  /\ \A e \in Devices \ {d} :
       /\ active_listeners'[e] = active_listeners[e]
       /\ listener_status'[e] = listener_status[e]
  /\ \A s \in Sessions :
       (sdev[s] # "none" /\ sdev[s] # d) =>
         /\ running'[s] = running[s]
         /\ tpc'[s] = tpc[s]
         /\ transport'[s] = transport[s]

\* C12: every step of start(A) or stop(A), every status report of A's session
\* and every error that ends A's session changes only A's entries of the
\* active set and the status table, and leaves the sessions of other devices
\* as they were.
C12_OnlyOwnDeviceChanges ==
  [][/\ \A c \in Callers, d \in Devices : (StartCall(c, d) \/ StopCall(c, d)) => Frame(d)
     /\ \A c \in Callers :
          (cpc[c] = "start_listener" /\ cpc'[c] # cpc[c]) => Frame(sdev[clistener[c]])
     /\ \A c \in Callers :
          (cpc[c] \in {"stop_listener", "stop_finally"} /\ cpc'[c] # cpc[c]) => Frame(cdev[c])
     /\ \A s \in Sessions :
          (reports'[s] # reports[s] \/ fault'[s] # fault[s]) => Frame(sdev[s])]_vars

C12_Witness ==
  \E s, t \in Sessions :
    /\ sdev[s] = "tcp1" /\ sdev[t] = "ser1"
    /\ fault[s] = "runtime" /\ tpc[s] = "done"
    /\ listener_status["tcp1"] = "Stopped"
    /\ active_listeners["ser1"] = t /\ running[t] /\ tpc[t] = "serial_poll"
    /\ listener_status["ser1"] = "Running"

\* C13: the status recorded for a device never goes from Stopped directly
\* to Running.
C13_NoStoppedToRunning ==
  [][\A d \in Devices :
       listener_status[d] = "Stopped" => listener_status'[d] # "Running"]_vars

\* C14: a session reports Running first and then Stopped, each at most once
\* and nothing else, and a session whose thread has ended has reported both.
C14_RunningThenStoppedOnce ==
  \A s \in Sessions :
    /\ reports[s] \in {<<>>, <<"Running">>, <<"Running", "Stopped">>}
    /\ tpc[s] = "done" <=> reports[s] = <<"Running", "Stopped">>
    /\ tpc[s] \in {"none", "created", "begin"} <=> reports[s] = <<>>

C14_Witness ==
  \E s, t \in Sessions :
    /\ tpc[s] = "done" /\ fault[s] = "runtime" /\ reports[s] = <<"Running", "Stopped">>
    /\ tpc[t] = "done" /\ fault[t] = "none" /\ stopInvoked[t]
    /\ reports[t] = <<"Running", "Stopped">>

\* C15: every NormalizedResult a parser call returns (parse_message, parse_hl7,
\* parse_astm with its plain-text fallback) has a non-empty sample_id, a
\* non-empty result and a parameter_code that is a value of the ParamMap.
C15_ResultsAreComplete ==
  \A i \in 1..Len(parsed.results) :
    /\ parsed.results[i].sample_id # <<>>
    /\ parsed.results[i].result # <<>>
    /\ parsed.results[i].parameter_code # <<>>
    /\ \E k \in DOMAIN call_map : call_map[k] = parsed.results[i].parameter_code

C15_Witness ==
  /\ parsed.fn = "parse_hl7"
  /\ Len(parsed.results) = 2
  /\ DetectProtocol(call_msg) = "UNKNOWN"

\* the acknowledgment bytes written so far
NumAcks(events) == Len(SelectSeq(events, LAMBDA e : e.ev = "ack"))

\* the bytes of the chunk that the step takes out of it
Taken == SubSeq(chunk, 1, Len(chunk) - Len(chunk'))

\* C16: on a TCP connection every ENQ byte received is acknowledged: the step
\* that takes an ENQ byte out of the chunk that was read writes one
\* acknowledgment byte 0x06.
C16_EveryEnqAcknowledged ==
  [][(source = "tcp" /\ hpc = "bytes" /\ Contains(Taken, {"ENQ"}))
       => NumAcks(log') = NumAcks(log) + 1]_vars

\* C17: on a TCP connection the step that processes an EOT byte hands the
\* frames collected so far, joined with CR, to _process_message as one
\* message, empties the collected frames, and leaves the bytes after the EOT
\* to be processed.
C17_EotDeliversAndResets ==
  [][(source = "tcp" /\ hpc = "bytes" /\ chunk # <<>> /\ Head(chunk) = "EOT"
        /\ astm_frames # <<>>)
       => /\ \E n \in 1..Len(log') :
               n = Len(log) + 1 /\ log'[n] = Event("msg", Join(astm_frames, <<"CR">>))
          /\ astm_frames' = <<>>
          /\ chunk' = Tail(chunk)]_vars

\* a message handed to _process_message that is classified as HL7
IsHl7Msg(e) == e.ev = "msg" /\ DetectProtocol(e.data) = "HL7"

\* the events from place i + 1 to place j - 1 are results handed to update_lab_result
OnlyDbBetween(events, i, j) == \A k \in (i + 1)..(j - 1) : events[k].ev = "db"

Order778 == BuildAstmFrames(BuildAstmOrderResponse(Sample778, << <<"A", "1">>, <<"A", "2">> >>))

\* C19: on a serial session, a received message with a query record that
\* names sample 778 is followed by the frames of the order message whose test
\* field is A1\A2 and then by the byte 0x04.
C19_Query778Answered ==
  \A i \in 1..Len(log) :
    (source = "serial" /\ log[i].ev = "msg"
       /\ ExtractAstmQuerySampleId(log[i].data) = Sample778)
      => /\ Len(log) >= i + Len(Order778) + 1
         /\ \A k \in 1..Len(Order778) : log[i + k] = Event("frame", Order778[k])
         /\ log[i + Len(Order778) + 1] = EotByte

\* C20: on serial, every message with a Q record of at least 3 fields and a
\* non-empty 3rd field is followed by the query response for the sample id of
\* that field, also when the Q record is the only record of the message; on
\* TCP no frame of a query response and no 0x04 is ever written.
C20_EveryQueryAnswered ==
  /\ source = "tcp" => \A i \in 1..Len(log) : log[i].ev \notin {"frame", "eot"}
  /\ source = "serial" =>
       \A i \in 1..Len(log) :
         (log[i].ev = "msg" /\ ExtractAstmQuerySampleId(log[i].data) # <<>>)
           => /\ Len(log) > i
              /\ log[i + 1].ev = "frame"
              /\ \E j \in (i + 2)..Len(log) :
                   /\ log[j] = EotByte
                   /\ \A k \in (i + 1)..(j - 1) : log[k].ev = "frame"

\* the frames written so far
FramesSent == SelectSeq(log, LAMBDA e : e.ev = "frame")

\* the text between STX and ETX of a frame: sequence digit and payload chunk
FrameBody(frame) == SubSeq(frame, 2, Len(frame) - 5)

\* the two checksum characters of a frame, between ETX and CR LF
FrameChecksum(frame) == SubSeq(frame, Len(frame) - 3, Len(frame) - 2)

\* C21: the checksum of every outbound frame is the sum of the bytes of its
\* sequence digit, its payload chunk and the end-of-frame byte 0x03, modulo
\* 256, written as two uppercase hexadecimal digits.
C21_ChecksumCoversEndByte ==
  \A k \in 1..Len(FramesSent) :
    FrameChecksum(FramesSent[k].data)
      = Hex02((SumOrd(FrameBody(FramesSent[k].data)) + Ord("ETX")) % 256)

\* C22: the k-th outbound frame of a response carries the sequence digit
\* ((k - 1) mod 7) + 1: 1 for the first frame, one more for each following
\* frame, and 1 again after 7.
C22_SequenceDigitsCycle1To7 ==
  \A k \in 1..Len(FramesSent) :
    FramesSent[k].data[2] = HexDigits[((k - 1) % 7) + 2]

\* the NormalizedResult of the end-to-end scenarios: 778, WBC_LIS, 5.6
ScenarioResult == NormalizedResult(Sample778, <<"W", "B", "C", "_", "L", "I", "S">>, <<"5", ".", "6">>)

\* C23: parsing the segment-framed lines O|1|778||WBC and R|1|778|5.6 under
\* the ParamMap wbc -> WBC_LIS yields exactly one NormalizedResult: sample id
\* 778, parameter code WBC_LIS, result 5.6.
C23_Scenario1YieldsResult ==
  /\ parsed.fn \in {"parse_astm", "parse_message"}
  /\ call_msg = Scenario1
  /\ call_map = ExampleMap
  => /\ ~parsed.raised
     /\ parsed.results = <<ScenarioResult>>

\* C24: the line-delimited message PID|||778|| CR OBX|1|NM|WBC^White Cell
\* Count||5.6|, classified by detect_protocol and parsed by parse_message
\* under the ParamMap wbc -> WBC_LIS, yields exactly one NormalizedResult:
\* sample id 778, parameter code WBC_LIS, result 5.6.
C24_Scenario2YieldsResult ==
  /\ parsed.fn = "parse_message"
  /\ call_msg = Scenario2
  /\ call_map = ExampleMap
  => /\ ~parsed.raised
     /\ parsed.results = <<ScenarioResult>>

\* C25: the plain-text message SAMPLEID: 778 LF WBC 5.6 LF, processed by
\* parse_message under the ParamMap wbc -> WBC_LIS, yields exactly one
\* NormalizedResult (778, WBC_LIS, 5.6), and so does the same message behind
\* a line that starts with DATE.
C25_Scenario3YieldsResult ==
  /\ parsed.fn = "parse_message"
  /\ call_msg \in {Scenario3, Scenario3Dated}
  /\ call_map = ExampleMap
  => /\ ~parsed.raised
     /\ parsed.results = <<ScenarioResult>>

\* the analyte line of each grammar whose code, XY, is a key of no ParamMap
XyLines(grammar) ==
  IF grammar = "HL7" THEN {<<"O", "B", "X", "|", "1", "|", "N", "M", "|", "X", "Y", "|", "|", "5", ".", "6", "|">>}
  ELSE IF grammar = "ASTM" THEN {<<"R", "|", "1", "|", "X", "Y", "|", "5", ".", "6">>}
  ELSE IF grammar = "PLAIN" THEN {<<"X", "Y", "SP", "5", ".", "6">>}
  ELSE {}

\* the lines of a message, and the message without its XY lines
LineSep(msg) == IF \E i \in 1..Len(msg) : msg[i] = "LF" THEN "LF" ELSE "CR"
HasXyLine(msg, grammar) ==
  \E i \in 1..Len(Split(msg, LineSep(msg))) : Split(msg, LineSep(msg))[i] \in XyLines(grammar)
WithoutXyLines(msg, grammar) ==
  Join(SelectSeq(Split(msg, LineSep(msg)), LAMBDA l : l \notin XyLines(grammar)), <<LineSep(msg)>>)

\* the grammar a parser function reads a message with
AstmOrPlain(msg) ==
  IF \E i \in 1..Len(ReSplitLines(StripControls(msg))) :
       StartsWithAny(Strip(ReSplitLines(StripControls(msg))[i]), AstmPrefixes)
    THEN "ASTM" ELSE "PLAIN"
GrammarOf(fn, msg) ==
  IF fn = "parse_hl7" THEN "HL7"
  ELSE IF fn = "parse_astm" THEN AstmOrPlain(msg)
  ELSE IF DetectProtocol(msg) = "ASTM" THEN AstmOrPlain(msg)
  ELSE DetectProtocol(msg)

\* what a parser function produces for a message
OutcomeOf(fn, msg, param_map) ==
  IF fn = "parse_hl7" THEN Called(fn, Returned(ParseHl7(msg, param_map)))
  ELSE IF fn = "parse_astm" THEN Called(fn, ParseAstm(msg, param_map))
  ELSE Called(fn, ParseMessage(msg, param_map))

ParserFns == {"parse_message", "parse_hl7", "parse_astm"}

\* the message of the call without the unmapped analyte lines of its grammar
MessageWithoutXy == WithoutXyLines(call_msg, GrammarOf(parsed.fn, call_msg))

\* a call on a message with XY lines that is read with the same grammar, its
\* lines being the grammar's units, when the XY lines are taken out
SkipsXyLines ==
  /\ parsed.fn \in ParserFns
  /\ HasXyLine(call_msg, GrammarOf(parsed.fn, call_msg))
  /\ GrammarOf(parsed.fn, MessageWithoutXy) = GrammarOf(parsed.fn, call_msg)
  /\ GrammarOf(parsed.fn, call_msg) = "HL7" => LineSep(call_msg) = "CR"

\* C26: an analyte whose normalized code is not a key of the ParamMap yields
\* no result and no error, and the mapped analytes of the same message yield
\* their results all the same: every result carries a code of the ParamMap,
\* and a call on a message with unmapped analyte lines produces what it
\* produces for the message without them.
C26_UnmappedAnalyteSkipped ==
  parsed.fn \in ParserFns =>
    /\ \A i \in 1..Len(parsed.results) :
         \E k \in DOMAIN call_map : parsed.results[i].parameter_code = call_map[k]
    /\ SkipsXyLines => parsed = OutcomeOf(parsed.fn, MessageWithoutXy, call_map)

\* an unmapped analyte between an order and a mapped analyte that yields its result
C26_Witness ==
  /\ SkipsXyLines
  /\ parsed.fn = "parse_astm"
  /\ ~parsed.raised
  /\ Len(parsed.results) = 1
  /\ \E i \in 2..Len(call_msg) : SubSeq(call_msg, i, Len(call_msg)) = <<"R", "|", "1", "|", "^", "^", "^", "W", "B", "C", "|", "5", ".", "6">>

\* the decoded text of the call's message without the control bytes
\* STX, ETX, EOT, ENQ and FS
CallText == RemoveAll(Decode(call_msg), ControlChars)

\* the text begins, behind blanks (vertical tabs included), with MSH|
BeginsWithMsh(txt) ==
  \E k \in 0..Len(txt) :
    /\ \A i \in 1..k : IsSpace(txt[i])
    /\ k + 4 <= Len(txt)
    /\ SubSeq(txt, k + 1, k + 4) = <<"M", "S", "H", "|">>

\* some line of the text begins, behind its blanks and its leading digits,
\* with one of H| P| O| R| L| C| M|
HasAstmRecord(txt) ==
  \E j \in 1..(Len(txt) - 1) :
    /\ txt[j] \in {"H", "P", "O", "R", "L", "C", "M"}
    /\ txt[j + 1] = "|"
    /\ \E d \in 1..j :
         /\ \A i \in d..(j - 1) : IsDigit(txt[i])
         /\ \E s \in 1..d :
              /\ \A i \in s..(d - 1) : IsSpace(txt[i])
              /\ s = 1 \/ txt[s - 1] \in LineEnds

\* C27: detect_protocol raises nothing and classifies every input: HL7 when
\* the text, without control bytes and leading vertical tabs and blanks,
\* begins with MSH| (whatever else it holds); otherwise ASTM when one of its
\* lines begins, behind its leading digits, with H|, P|, O|, R|, L|, C| or M|;
\* otherwise UNKNOWN.
C27_DetectProtocolClassifies ==
  parsed.fn = "detect_protocol" =>
    /\ ~parsed.raised
    /\ parsed.text = << IF BeginsWithMsh(CallText) THEN "HL7"
                        ELSE IF HasAstmRecord(CallText) THEN "ASTM"
                        ELSE "UNKNOWN" >>

\* a message that begins with MSH| and holds an ASTM record line is HL7
C27_Witness ==
  /\ parsed.fn = "detect_protocol"
  /\ parsed.text = <<"HL7">>
  /\ HasAstmRecord(CallText)

\* a text from its first to its last letter or digit, in lowercase
TrimmedLower(s) ==
  IF \A i \in 1..Len(s) : ~IsAlnum(s[i]) THEN <<>>
  ELSE Lower(SubSeq(s, CHOOSE a \in 1..Len(s) : IsAlnum(s[a]) /\ \A i \in 1..(a - 1) : ~IsAlnum(s[i]),
                       CHOOSE b \in 1..Len(s) : IsAlnum(s[b]) /\ \A i \in (b + 1)..Len(s) : ~IsAlnum(s[i])))

HasLetter(s) == \E i \in 1..Len(s) : IsAlpha(s[i])

\* what the claim says of a code with components cs
NormalizedAsClaimed(cs, str) ==
  /\ \A k \in 1..Len(cs) :
       HasLetter(cs[k]) /\ (\A j \in 1..(k - 1) : ~HasLetter(cs[j])) => str = TrimmedLower(cs[k])
  /\ (\A k \in 1..Len(cs) : ~HasLetter(cs[k])) =>
       \A k \in 1..Len(cs) :
         cs[k] # <<>> /\ (\A j \in (k + 1)..Len(cs) : cs[j] = <<>>) => str = TrimmedLower(cs[k])

\* C28: for a code that contains ^, _normalize_code returns the lowercase,
\* trimmed form of the first component that contains a letter (^^WBC^^conc
\* gives wbc), and of the last non-empty component when no component
\* contains a letter; the empty code gives the empty string.
C28_NormalizePrefersLetters ==
  parsed.fn = "normalize_code" =>
    /\ ~parsed.raised
    /\ call_msg = <<>> => parsed.text = <<>>
    /\ call_msg = <<"^", "^", "W", "B", "C", "^", "^", "c", "o", "n", "c">> => parsed.text = <<"w", "b", "c">>
    /\ (\E i \in 1..Len(call_msg) : call_msg[i] = "^") =>
         NormalizedAsClaimed(Split(call_msg, "^"), parsed.text)

\* a code whose first component is digits only and whose second holds letters
C28_Witness ==
  /\ parsed.fn = "normalize_code"
  /\ call_msg = <<"1", "2", "^", "-", "a", "1", "-", "^", "W", "B", "C">>
  /\ parsed.text = <<"a", "1">>

\* the sessions whose stop() returns in this step: the one stop_machine
\* stops, when the join did not raise, and the one load_machines stops
StopReturnsFor(s) ==
  \E c \in Callers :
    \/ /\ cpc[c] = "stop_listener" /\ cpc'[c] = "stop_finally"
       /\ clistener[c] = s
       /\ ~craised'[c]
    \/ /\ cpc[c] = "load_stop"
       /\ s \in ctostop[c] \ ctostop'[c]
       /\ ~JoinRaises(s)

\* C29: when stop() returns for a session, the session's transport resource
\* (the listening socket of a TCP session, the port handle of a serial
\* session) is not open any more.
C29_StopClosesTransport ==
  [][\A s \in Sessions : StopReturnsFor(s) => transport'[s] # "open"]_vars

\* the four numbered records as _handle_connection joins them
NumberedRecords == <<"1", "H", "|", "^", "&", "CR", "2", "O", "|", "1", "|", "7", "7", "8", "CR", "3", "R", "|", "1", "|", "^", "^", "^", "W", "B", "C", "|", "5", ".", "6", "CR", "4", "L", "|", "1", "|", "N">>

\* C30: a segment-framed transmission received on TCP as numbered frames, one
\* record per frame (header, O record with sample id 778, R record with a
\* mapped code and a value, terminator), yields one persisted
\* NormalizedResult: the message is parsed with the segment-framed grammar,
\* the frame numbers stripped.
C30_NumberedFramesPersisted ==
  \A n \in 1..Len(log) :
    source = "tcp" /\ log[n] = Event("msg", NumberedRecords)
      => /\ n < Len(log)
         /\ log[n + 1] = DbEvent(NormalizedResult(Sample778, <<"W", "L">>, <<"5", ".", "6">>))

\* the bytes are one segment-framed transmission: ENQ, several frames, EOT
IsTransmission(bytes) ==
  /\ Len(bytes) > 2
  /\ bytes[1] = "ENQ" /\ bytes[2] = "STX" /\ bytes[Len(bytes)] = "EOT"
  /\ \A i \in 2..(Len(bytes) - 1) : bytes[i] \notin {"ENQ", "EOT"}
  /\ \E i \in 3..Len(bytes) : bytes[i] = "STX"

\* the records of the frames of a transmission, in order: of every piece
\* that follows an STX, the text in front of its ETX or ETB
FrameRecords(bytes) ==
  [i \in 1..(Len(Split(bytes, "STX")) - 1) |->
     SplitAcc(Split(bytes, "STX")[i + 1], {"ETX", "ETB"}, <<>>)[1]]

\* the messages handed to _process_message so far
MessagesDelivered == [i \in 1..Len(SelectSeq(log, LAMBDA e : e.ev = "msg")) |-> SelectSeq(log, LAMBDA e : e.ev = "msg")[i].data]

\* every byte was read and the handler is done with it
AllReceived ==
  /\ stream = <<>> /\ chunk = <<>>
  /\ hpc = IF source = "tcp" THEN "done" ELSE "poll"

\* C31: for the bytes of one segment-framed transmission (ENQ, several
\* STX...ETX frames with checksums, EOT) the serial read loop hands the same
\* messages to _process_message as the TCP connection handler: one message,
\* the records of all the frames joined by CR.
C31_SerialDeliversLikeTcp ==
  AllReceived /\ IsTransmission(call_msg)
    => MessagesDelivered = <<Join(FrameRecords(call_msg), <<"CR">>)>>

\* the assembler is in exactly one of Idle, InFrame, AwaitingChecksum(1),
\* AwaitingChecksum(2)
AssemblerStateOk ==
  /\ expecting_checksum \in 0..2
  /\ ~(in_frame /\ expecting_checksum > 0)

\* C32: after every byte the TCP frame assembler processes it is in exactly
\* one of the states Idle, InFrame, AwaitingChecksum(n) with n in {1, 2}:
\* in_frame and a non-zero countdown never hold together and the countdown
\* stays in 0..2; the frame body only ever grows by the byte just processed,
\* in state InFrame; CR and LF and the bytes counted down after ETX/ETB never
\* become frame content; and a collected frame is the body as it stood.
C32_AssemblerStates ==
  [][/\ AssemblerStateOk /\ AssemblerStateOk'
     /\ (source = "tcp" /\ hpc = "bytes" /\ frame_buf' # frame_buf /\ frame_buf' # <<>>)
          => /\ in_frame /\ in_frame'
             /\ expecting_checksum = 0
             /\ frame_buf' = Append(frame_buf, Head(chunk))
             /\ Head(chunk) \notin {"CR", "LF"}
     /\ astm_frames' # astm_frames
          => /\ expecting_checksum = 1
             /\ astm_frames' = Append(astm_frames, frame_buf)]_vars

\* a frame body holds text, its ETX was seen and one checksum byte counted
C32_Witness ==
  /\ source = "tcp"
  /\ ~in_frame /\ expecting_checksum = 1
  /\ frame_buf # <<>>
  /\ astm_frames # <<>>

\* the segments of the call's message
Hl7Segments == Split(Decode(call_msg), "CR")

\* a segment that sets a non-empty sample id: PID by its 4th field, OBR by
\* its 3rd
SetsSampleId(seg) ==
  \/ /\ StartsWith(seg, <<"P", "I", "D">>)
     /\ Len(Split(seg, "|")) > 3 /\ Strip(Split(seg, "|")[4]) # <<>>
  \/ /\ StartsWith(seg, <<"O", "B", "R">>)
     /\ Len(Split(seg, "|")) > 3 /\ Strip(Split(seg, "|")[3]) # <<>>

\* an OBX segment with at least 6 fields, a mapped code and a non-empty value
IsResultObx(seg, param_map) ==
  /\ StartsWith(seg, <<"O", "B", "X">>)
  /\ Len(Split(seg, "|")) >= 6
  /\ NormalizeCode(Strip(Split(seg, "|")[4])) \in DOMAIN param_map
  /\ Strip(Split(seg, "|")[6]) # <<>>

\* C33: parse_hl7 emits its results for the message as a whole: when some
\* segment of the message sets a non-empty sample id (PID 4th field, OBR 3rd
\* field), every OBX segment with at least 6 fields, a mapped code and a
\* non-empty value yields a result, whether it comes before or after that
\* segment.
C33_ObxOrderIndependent ==
  (parsed.fn = "parse_hl7" /\ \E i \in 1..Len(Hl7Segments) : SetsSampleId(Hl7Segments[i]))
    => Len(parsed.results)
         = Len(SelectSeq(Hl7Segments, LAMBDA seg : IsResultObx(seg, call_map)))

\* the rows that have both codes
UsableRows(rows) ==
  {i \in 1..Len(rows) : Strip(rows[i].param_code) # <<>> /\ Strip(rows[i].lis_code) # <<>>}

\* the forward map: the instrument codes, trimmed and in lowercase, each with
\* the trimmed LIS code of the last row that holds it
ForwardKeys(rows) == {Lower(Strip(rows[i].param_code)) : i \in UsableRows(rows)}
ForwardValue(rows, k) ==
  Strip(rows[CHOOSE i \in UsableRows(rows) :
               /\ Lower(Strip(rows[i].param_code)) = k
               /\ \A j \in UsableRows(rows) : Lower(Strip(rows[j].param_code)) = k => j <= i].lis_code)

\* the keys of the inverse map: the LIS codes of the forward map, in lowercase
InverseKeys(rows) == {Lower(ForwardValue(rows, k)) : k \in ForwardKeys(rows)}

\* the keys that look like instrument codes: alphanumeric, at most 5 long
ShortAlnum(keys) ==
  {k \in keys : k # <<>> /\ Len(k) <= 5 /\ \A j \in 1..Len(k) : IsAlnum(k[j])}

\* C35: get_param_map returns the inverse map (LIS code -> instrument code)
\* exactly when more keys of the inverse map than of the forward map are
\* alphanumeric and at most 5 characters long; on a tie, on a lower count and
\* for an empty table it returns the forward map (instrument code -> LIS
\* code).
C35_InverseMapOnlyOnHigherScore ==
  parsed.fn = "get_param_map" =>
    IF Cardinality(ShortAlnum(InverseKeys(call_msg))) > Cardinality(ShortAlnum(ForwardKeys(call_msg)))
      THEN /\ DOMAIN call_map = InverseKeys(call_msg)
           /\ \A k \in DOMAIN call_map :
                /\ call_map[k] \in ForwardKeys(call_msg)
                /\ Lower(ForwardValue(call_msg, call_map[k])) = k
      ELSE /\ DOMAIN call_map = ForwardKeys(call_msg)
           /\ \A k \in DOMAIN call_map : call_map[k] = ForwardValue(call_msg, k)

\* a table for which the inverse map is returned
C35_Witness ==
  /\ parsed.fn = "get_param_map"
  /\ call_msg # <<>>
  /\ DOMAIN call_map = InverseKeys(call_msg)
  /\ InverseKeys(call_msg) # ForwardKeys(call_msg)

\* the payload chunk of a frame: its body without the sequence digit
FrameChunk(frame) == SubSeq(frame, 3, Len(frame) - 5)

\* the frame is STX, a digit, its chunk, ETX, two uppercase hexadecimal
\* characters, CR, LF
WellFormedFrame(frame) ==
  /\ Len(frame) >= 8
  /\ frame[1] = "STX"
  /\ IsDigit(frame[2])
  /\ frame[Len(frame) - 4] = "ETX"
  /\ \A i \in {Len(frame) - 3, Len(frame) - 2} : \E h \in 1..16 : frame[i] = HexDigits[h]
  /\ frame[Len(frame) - 1] = "CR" /\ frame[Len(frame)] = "LF"

\* C34: for a non-empty response text the splitting into frames ends, every
\* chunk is non-empty and at most 240 characters long, only the last chunk
\* may be shorter than 240, there are ceiling(length / 240) frames, the chunks
\* in frame order concatenated are the text, and each frame is STX, sequence
\* digit, chunk, ETX, two checksum characters, CR, LF.
C34_FramesPartitionText ==
  (log # <<>> /\ call_msg # <<>>) =>
    /\ Len(FramesSent) = (Len(call_msg) + MaxFrameLen - 1) \div MaxFrameLen
    /\ \A k \in 1..Len(FramesSent) :
         /\ WellFormedFrame(FramesSent[k].data)
         /\ Len(FrameChunk(FramesSent[k].data)) \in 1..MaxFrameLen
         /\ k < Len(FramesSent) => Len(FrameChunk(FramesSent[k].data)) = MaxFrameLen
    /\ Join([k \in 1..Len(FramesSent) |-> FrameChunk(FramesSent[k].data)], <<>>) = call_msg

\* a text of several frames whose last chunk is shorter, all sent
C34_Witness ==
  /\ Len(FramesSent) >= 3
  /\ log[Len(log)] = EotByte
  /\ Len(call_msg) % MaxFrameLen # 0

\* a Supervisor call has taken the session out of the active set, or looked it
\* up, and is about to call its stop()
BeingStopped(s) ==
  \E c \in Callers :
    \/ s \in ctostop[c]
    \/ clistener[c] = s /\ cpc[c] \in {"stop_listener", "stop_finally"}

\* C36: whenever a session's thread is alive and its running flag is set, that
\* session is the one registered for its device in active_listeners, in every
\* interleaving of start, stop, reload and the status callbacks (a session a
\* Supervisor call is stopping at that moment is not counted): no running
\* session is out of reach of stop(name).
C36_RunningSessionIsRegistered ==
  \A s \in Sessions :
    (ThreadAlive(s) /\ running[s] /\ ~BeingStopped(s)) => active_listeners[sdev[s]] = s

\* the session s issues its Stopped callback in this step (lines 69-70 of
\* _listen) after the Supervisor has called its stop(), while a newer session
\* t of the same device is registered
StaleStoppedCallback(s, t) ==
  /\ tpc[s] = "finally" /\ tpc'[s] = "done"
  /\ stopInvoked[s]
  /\ t > s /\ sdev[t] = sdev[s]
  /\ active_listeners[sdev[s]] = t

\* C37: the Stopped callback of a session that the Supervisor has stopped and
\* replaced by a newer session of the same device does not remove the newer
\* session from active_listeners, and does not set the device's status to
\* Stopped while the newer session is running.
C37_StaleStoppedCallbackIgnored ==
  [][\A s, t \in Sessions :
       StaleStoppedCallback(s, t) =>
         /\ active_listeners'[sdev[s]] = t
         /\ running[t] => listener_status'[sdev[s]] # "Stopped"]_vars

\* C38: a device that has a session in active_listeners has the status
\* Starting or Running in listener_status: no device is registered as active
\* and marked Stopped, or missing from the status table.
C38_ActiveDeviceStartingOrRunning ==
  \A d \in Devices :
    active_listeners[d] # NoSession => listener_status[d] \in {"Starting", "Running"}

\* a device with a registered session after an earlier session of the same
\* device has reported Stopped
C38_Witness ==
  \E s, t \in Sessions :
    /\ s < t /\ sdev[s] = sdev[t] /\ sdev[t] \in Devices
    /\ active_listeners[sdev[t]] = t
    /\ Len(reports[s]) > 0 /\ reports[s][Len(reports[s])] = "Stopped"
    /\ listener_status[sdev[t]] = "Running"

\* C39: a stop() of a running serial session whose transport has no fault of
\* its own (the port opened, no read or write error, no message that failed
\* in processing) never causes an error notification: the thread leaves its
\* loop through the running flag, not through an exception from the port that
\* stop() closed.
C39_SerialStopNotifiesNothing ==
  \A s \in Sessions :
    (Kind(s) = "Serial" /\ stopInvoked[s] /\ fault[s] \notin {"acquire", "runtime", "process"})
      => (notified[s] = 0 /\ fault[s] = "none")

\* how many events of the kind ev the sequence events holds
CountEv(events, ev) == Len(SelectSeq(events, LAMBDA e : e.ev = ev))

\* One pass of the serial loop over frames (no FS in the buffer) wrote
\* `written`, the first `enq` events of it the acknowledgments of the ENQ
\* bytes of the chunk. For every message of the pass that was answered with a
\* query response: an acknowledgment of its frame precedes the first frame of
\* the response (every message of the pass up to this one has its own
\* acknowledgment before that point), and when it is the last message of the
\* pass nothing is written after the EOT of the response.
AckBeforeResponseOnly(written, enq) ==
  \A i \in 1..(Len(written) - 1) :
    (written[i].ev = "msg" /\ written[i + 1].ev = "frame")
      => /\ CountEv(SubSeq(written, 1, i), "ack") - enq >= CountEv(SubSeq(written, 1, i), "msg")
         /\ CountEv(SubSeq(written, i + 1, Len(written)), "msg") = 0
              => written[Len(written)] = EotByte

\* C40: for a query message received in a frame on a serial transport, the
\* byte 0x06 that acknowledges the frame is written before the first frame of
\* the query response, and no byte is written after the 0x04 that ends the
\* response as a reaction to that message.
C40_AckBeforeQueryResponse ==
  [][(source = "serial" /\ stream # <<>> /\ Len(log') > Len(log)
        /\ ~Contains(ser_buffer \o Head(stream), {"FS"}))
       => AckBeforeResponseOnly(SubSeq(log', Len(log) + 1, Len(log')),
                                Len(EnqAcks(Head(stream))))]_vars

====
